---- MODULE Spec2Model ----
(***************************************************************************)
(* A model of the go-imap server-side parser: the cursor over a hybrid     *)
(* line/literal stream, its sticky error slot, the token readers, the      *)
(* sequence-set model and the search-query grammar.                        *)
(*                                                                         *)
(* Bytes are one-character strings, lines and the stream are strings.      *)
(* Offsets are 0-based as in the source: Byte(s, i) is s[i].               *)
(***************************************************************************)
EXTENDS Integers, Sequences, FiniteSets, TLC

VARIABLES
  p,     \* the Parser: its fields, the buffered reader p.r and the writer p.w
  op,    \* the operation that produced this state ("init" after NewParser)
  arg,   \* the argument the operation was called with
  ret,   \* the value the operation returned
  input, \* what the client's stream was built from; never changes
  steps  \* the loop turns and recursive calls the operation went through

vars == <<p, op, arg, ret, input, steps>>

(***************************************************************************)
(* Bytes and strings                                                       *)
(***************************************************************************)
Byte(s, i) == SubSeq(s, i + 1, i + 1)

Slice(s, a, b) == SubSeq(s, a + 1, b)

From(s, a) == SubSeq(s, a + 1, Len(s))

crlf == "\r\n"

Upper == "ABCDEFGHIJKLMNOPQRSTUVWXYZ"

Lower == "abcdefghijklmnopqrstuvwxyz"

Digits == "0123456789"

\* The printable 7-bit bytes 0x20..0x7E (without the backquote, which a TLA+
\* string cannot hold); every other byte is a control byte (below ctl), DEL,
\* or at or above char.
Printable == " !\"#$%&'()*+,-./0123456789:;<=>?@ABCDEFGHIJKLMNOPQRSTUVWXYZ[\\]^_abcdefghijklmnopqrstuvwxyz{|}~"

Chars(s) == {SubSeq(s, i, i) : i \in 1..Len(s)}

PrintableSet == Chars(Printable)

DigitSet == Chars(Digits)

IndexIn(c, s) == IF c \in Chars(s) THEN CHOOSE i \in 1..Len(s) : SubSeq(s, i, i) = c ELSE 0

LowerOf == [c \in Chars(Upper) |-> SubSeq(Lower, IndexIn(c, Upper), IndexIn(c, Upper))]

UpperOf == [c \in Chars(Lower) |-> SubSeq(Upper, IndexIn(c, Lower), IndexIn(c, Lower))]

DigitVal == [c \in DigitSet |-> IndexIn(c, Digits) - 1]

ToLowerByte(c) == IF c \in DOMAIN LowerOf THEN LowerOf[c] ELSE c

ToUpperByte(c) == IF c \in DOMAIN UpperOf THEN UpperOf[c] ELSE c

RECURSIVE ToLower(_)
ToLower(s) == IF s = "" THEN "" ELSE ToLowerByte(Head(s)) \o ToLower(Tail(s))

RECURSIVE ToUpper(_)
ToUpper(s) == IF s = "" THEN "" ELSE ToUpperByte(Head(s)) \o ToUpper(Tail(s))

\* The zero byte Peek returns when nothing is available.
nul == ""

\* init(): atom-specials plus '[', and every byte below ctl.
atomSpecialList == {"(", ")", "{", " ", "%", "*", "\"", "[", "\\", "]"}

atomSpecials(c) == c \notin PrintableSet \/ c \in atomSpecialList

(***************************************************************************)
(* Errors: the error slot holds "" (nil) or the error's text.              *)
(***************************************************************************)
Nil == ""

ErrLineTooShort == "line too short"

ErrSeqNoOutOfBounds == "sequence number out of bounds"

ErrEOF == "EOF"

ErrIO == "read: connection reset"

ErrRange == "strconv.Atoi: value out of range"

ErrTimeParse == "parsing time: cannot parse"

InvalidTokenError(tokenType) == "invalid byte in " \o tokenType

TypeMismatchError(expected) == "type mismatch: expected " \o expected

ExpectedError(s) == "expected " \o s

(***************************************************************************)
(* Parser state. Every method is an operator from the parser q to the      *)
(* parser it leaves, or to [p, v]: the parser and the value returned.      *)
(* Where a method goes on with the result of a call, the rest of its body  *)
(* is written The({body : r \in {call}}): the body with r standing for     *)
(* the value of the call.                                                  *)
(***************************************************************************)
The(S) == CHOOSE v \in S : TRUE

R(q, v) == [p |-> q, v |-> v]

Valid(q) == q.err = Nil

PTail(q) == From(q.line, q.pos)

available(q) == Len(PTail(q))

\* A Go panic (advance's own, or the runtime's index out of range) aborts the
\* process: the flag is set and no operation runs afterwards.
Panic(q, what) == [q EXCEPT !.panic = TRUE, !.err = "panic: " \o what]

ErrNegativeAdvance == "negative advance count"

ErrAdvanceTooFar == "advance count beyond input"

ErrIndex == "index out of range"

\* the most loop turns and recursive calls one operation is followed through
MaxSteps == 24

ErrRunaway == "runaway loop"

\* One more turn of a loop, or one more recursive call, of the running
\* operation. p.steps counts them from the start of the operation; an
\* operation still turning after MaxSteps turns is cut short through the
\* error slot.
Tick(q) ==
  [q EXCEPT !.steps = @ + 1,
            !.err = IF q.steps >= MaxSteps /\ q.err = Nil THEN ErrRunaway ELSE @]

\* bufio.Reader.ReadString('\n') on p.r: the bytes up to and including the
\* first LF, or everything left together with the stream's end error.
\* IndexLF(s, i) is the index of the first LF of s at or behind index i, or 0;
\* the search halves s[i..], so that a line of thousands of bytes is searched
\* in a few nested calls.
RECURSIVE IndexLF(_, _)
IndexLF(s, i) ==
  IF i > Len(s) THEN 0
  ELSE IF i = Len(s) THEN (IF SubSeq(s, i, i) = "\n" THEN i ELSE 0)
  ELSE The({
    IF k > 0 THEN k ELSE IndexLF(s, (i + Len(s)) \div 2 + 1)
    : k \in {IndexLF(SubSeq(s, 1, (i + Len(s)) \div 2), i)} })

ReadStringLF(q) ==
  The({
    IF k > 0 THEN [line |-> SubSeq(q.r, 1, k), err |-> Nil, rest |-> From(q.r, k)]
    ELSE [line |-> q.r, err |-> q.rEnd, rest |-> ""]
    : k \in {IndexLF(q.r, 1)} })

readLine(q) ==
  The({
    [q EXCEPT !.pos = 0, !.line = got.line, !.err = got.err, !.r = got.rest,
    !.isEOL = IF Len(got.line) > 0 THEN FALSE ELSE @]
    : got \in {ReadStringLF(q)} })

ensure(q, ct) ==
  IF q.isEOL THEN The({
    IF ~Valid(q1) THEN q1 ELSE (IF available(q1) < ct THEN [q1 EXCEPT !.err = ErrLineTooShort] ELSE q1)
    : q1 \in {readLine(q)} }) ELSE (IF available(q) < ct THEN [q EXCEPT !.err = ErrLineTooShort] ELSE q)

advance(q, n) ==
  IF n < 0 THEN Panic(q, ErrNegativeAdvance)
  ELSE IF n > available(q) THEN Panic(q, ErrAdvanceTooFar)
  ELSE [q EXCEPT !.pos = @ + n]

accept(q, s) ==
  IF ~Valid(q) THEN R(q, FALSE) ELSE The({
    IF ~Valid(q1)
    THEN R(IF q1.err = ErrLineTooShort THEN [q1 EXCEPT !.err = Nil] ELSE q1, FALSE)
    ELSE IF ToLower(Slice(PTail(q1), 0, Len(expected))) # expected THEN R(q1, FALSE)
    ELSE R(advance(q1, Len(expected)), TRUE)
    : q1 \in {ensure(q, Len(s))}, expected \in {ToLower(s)} })

Expect(q, s) ==
  IF ~Valid(q) THEN q ELSE The({
    IF Valid(a.p) /\ ~a.v THEN [a.p EXCEPT !.err = ExpectedError(s)] ELSE a.p
    : a \in {accept(q, s)} })

ReadSpace(q) == Expect(q, " ")

Peek(q) ==
  The({
    IF available(q1) < 1 THEN R(q1, nul) ELSE R(q1, Byte(q1.line, q1.pos))
    : q1 \in {ensure(q, 1)} })

\* a delimiter test that takes `]` and `)` in every context
isValidDelimiter_AnyContext(q, c) == c \in {" ", "\r", "]", ")"}

isValidDelimiter(q, c) ==
  CASE c \in {" ", "\r"} -> TRUE
    [] c = "]" -> q.inSection
    [] c = ")" -> q.listDepth > 0
    [] OTHER -> FALSE

(***************************************************************************)
(* normalize: flags to title case; the fast path returns the atom as is.   *)
(***************************************************************************)
IsLetter(c) == c \in DOMAIN LowerOf \/ c \in DOMAIN UpperOf

IsLowerByte(c) == c \in DOMAIN UpperOf

\* the case wanted at index i (want = 0x20): lower from i = 2 on when atom[0]
\* is a backslash, upper everywhere else
WantLower(atom, i) == i >= 2 /\ Byte(atom, 0) = "\\"

\* the first loop: some letter does not have the case wanted
NeedsNormalize(atom) ==
  \E i \in 0..(Len(atom) - 1) :
    /\ IsLetter(Byte(atom, i))
    /\ IsLowerByte(Byte(atom, i)) # WantLower(atom, i)

\* the second loop, from index i on
RECURSIVE normalizeFrom(_, _)
normalizeFrom(atom, i) ==
  IF i >= Len(atom) THEN "" ELSE The({
    IF ~IsLetter(c) THEN c
    ELSE IF WantLower(atom, i) THEN ToLowerByte(c) ELSE ToUpperByte(c)
    : c \in {Byte(atom, i)} }) \o normalizeFrom(atom, i + 1)

\* every letter to upper case, flag or not
normalize_Upper(atom) == ToUpper(atom)

normalize(atom) == IF NeedsNormalize(atom) THEN normalizeFrom(atom, 0) ELSE atom

(***************************************************************************)
(* Token readers                                                           *)
(***************************************************************************)
NoExtra == {}

\* The scan loop of ReadAtomWithExtra: [p, ok, n, flag], n the count of atom
\* bytes; byte(q1, c) is the loop body once p.ensure(n + 1) has succeeded, c
\* being data[n].
RECURSIVE atomScan(_, _, _, _)
atomScan(q, n, flag, extra) ==
  The({
    IF ~Valid(q1) THEN [p |-> q1, ok |-> FALSE, n |-> n, flag |-> flag]
    ELSE The({
      IF c \notin PrintableSet \/ (atomSpecials(c) /\ c \notin extra)
      THEN IF c = "\\" /\ n = 0 THEN atomScan(q1, n + 1, TRUE, extra)
           ELSE IF c = "*" /\ n = 1 /\ flag THEN [p |-> q1, ok |-> TRUE, n |-> n + 1, flag |-> flag]
           ELSE [p |-> q1, ok |-> TRUE, n |-> n, flag |-> flag]
      ELSE atomScan(q1, n + 1, flag, extra)
      : c \in {Byte(PTail(q1), n)} })
    : q1 \in {ensure(q, n + 1)} })

ReadAtomWithExtra(q, extra) ==
  The({
    The({
      IF ~s.ok THEN R(s.p, "")
      ELSE IF s.n < 2 /\ (s.n = 0 \/ s.flag) THEN R([s.p EXCEPT !.err = InvalidTokenError("atom")], "")
      ELSE IF s.n >= Len(data) THEN R(Panic(s.p, ErrIndex), "")
      ELSE IF ~isValidDelimiter(s.p, Byte(data, s.n))
      THEN R([s.p EXCEPT !.err = InvalidTokenError("atom")], "")
      ELSE R(advance(s.p, s.n),
             IF s.flag THEN normalize(Slice(data, 0, s.n)) ELSE Slice(data, 0, s.n))
      : data \in {PTail(s.p)} })
    : s \in {atomScan(q, 0, FALSE, extra)} })

ReadAtom(q) == ReadAtomWithExtra(q, NoExtra)

\* strconv.Atoi on a run of digits: the value, or a range error beyond int64.
RECURSIVE StripZeros(_)
StripZeros(s) == IF Len(s) > 1 /\ Head(s) = "0" THEN StripZeros(Tail(s)) ELSE s

RECURSIVE DigitsLE(_, _)
DigitsLE(a, b) ==
  IF a = "" THEN TRUE
  ELSE IF DigitVal[Head(a)] # DigitVal[Head(b)] THEN DigitVal[Head(a)] < DigitVal[Head(b)]
  ELSE DigitsLE(Tail(a), Tail(b))

MaxInt64 == "9223372036854775807"

AtoiFails(str) ==
  The({
    Len(d) > Len(MaxInt64) \/ (Len(d) = Len(MaxInt64) /\ ~DigitsLE(d, MaxInt64))
    : d \in {StripZeros(str)} })

RECURSIVE AtoiValue(_, _)
AtoiValue(str, acc) ==
  IF str = "" THEN acc ELSE AtoiValue(Tail(str), 10 * acc + DigitVal[Head(str)])

\* The scan loop of ReadInt: [p, ok, n]. data is the tail taken BEFORE the
\* first ensure and never refreshed, so after a line load it is the previous
\* line's tail.
RECURSIVE intScan(_, _, _)
intScan(q, data, n) ==
  The({
    IF ~Valid(q1) THEN [p |-> q1, ok |-> FALSE, n |-> n]
    ELSE IF n >= Len(data) THEN [p |-> Panic(q1, ErrIndex), ok |-> FALSE, n |-> n]
    ELSE IF Byte(data, n) \notin DigitSet THEN [p |-> q1, ok |-> TRUE, n |-> n]
    ELSE intScan(q1, data, n + 1)
    : q1 \in {ensure(q, n + 1)} })

ReadInt(q) ==
  The({
    The({
      IF ~s.ok THEN R(s.p, 0)
      ELSE IF s.n < 1 THEN R([s.p EXCEPT !.err = InvalidTokenError("integer")], 0)
      ELSE IF AtoiFails(str) THEN R([s.p EXCEPT !.err = ErrRange], 0)
      ELSE The({
        IF ~Valid(q1) THEN R(q1, 0) ELSE R(q1, i)
        : q1 \in {advance(s.p, s.n)}, i \in {AtoiValue(str, 0)} })
      : str \in {Slice(PTail(q), 0, s.n)} })
    : s \in {intScan(q, PTail(q), 0)} })

\* an escape test that lets a backslash precede any byte
quotedEscapable_Any(c) == TRUE

\* The escape test of ReadQuotedString: the bytes a backslash may precede
quotedEscapable(c) == c \in {"\\", "\""}

\* The Parse loop of ReadQuotedString: [p, ok, n, lastEscape, buf]: n the
\* cursor into data, lastEscape the start of the pending run, buf the bytes
\* written so far. The second p.ensure(n + 1) of the backslash case repeats
\* the one that has just succeeded and changes nothing.
RECURSIVE quotedScan(_, _, _, _)
quotedScan(q, n, lastEscape, buf) ==
  The({
    The({
      IF ~Valid(q1) THEN ([p |-> q1, ok |-> FALSE, n |-> n, lastEscape |-> lastEscape, buf |-> buf])
      ELSE IF Byte(data, n) = "\\"
      THEN IF n + 1 >= Len(data) THEN The({
        [p |-> q2, ok |-> FALSE, n |-> n, lastEscape |-> lastEscape, buf |-> buf]
        : q2 \in {Panic(q1, ErrIndex)} })
           ELSE IF quotedEscapable(Byte(data, n + 1))
           THEN quotedScan(q1, n + 2, n + 1, buf \o Slice(data, lastEscape, n))
           ELSE The({
             [p |-> q2, ok |-> FALSE, n |-> n, lastEscape |-> lastEscape, buf |-> buf]
             : q2 \in {[q1 EXCEPT !.err = InvalidTokenError("quoted string")]} })
      ELSE IF Byte(data, n) = "\"" THEN ([p |-> q1, ok |-> TRUE, n |-> n, lastEscape |-> lastEscape, buf |-> buf])
      ELSE quotedScan(q1, n + 1, lastEscape, buf)
      : data \in {PTail(q1)} })
    : q1 \in {ensure(q, n + 1)} })

ReadQuotedString(q) ==
  The({
    IF pk.v # "\"" THEN R([pk.p EXCEPT !.err = TypeMismatchError("quoted string")], "")
    ELSE The({
      IF ~Valid(q1) THEN R(q1, "") ELSE The({
        The({
          IF ~s.ok THEN R(s.p, "")
          ELSE IF (s.n + 1) >= Len(data) THEN R(Panic(s.p, ErrIndex), "")
          ELSE IF ~isValidDelimiter(s.p, Byte(data, (s.n + 1)))
          THEN R([s.p EXCEPT !.err = InvalidTokenError("atom")], "")
          ELSE R(advance(s.p, (s.n + 1)), s.buf \o Slice(data, s.lastEscape, (s.n + 1) - 1))
          : data \in {PTail(s.p)} })
        : s \in {quotedScan(q1, 1, 1, "")} })
      : q1 \in {ensure(pk.p, 2)} })
    : pk \in {Peek(q)} })

\* Conn.Continuation(msg): one line "+ msg CRLF" written to the peer.
Continuation(q, msg) ==
  [q EXCEPT !.io = Append(@, [op |-> "write", data |-> "+ " \o msg \o crlf])]

\* ReadLiteralPrefix: [p, size, sync]
ReadLiteralPrefix(q) ==
  The({
    The({
      [p |-> Expect(a.p, "}" \o crlf), size |-> i.v, sync |-> ~a.v]
      : a \in {accept(i.p, "+")} })
    : i \in {ReadInt(Expect(q, "{"))} })

\* ReadLiteralStream sending the continuation whatever the prefix says
ReadLiteralStream_AlwaysPrompts(q) ==
  The({
    IF ~Valid(pre.p) THEN R(pre.p, [ok |-> FALSE, size |-> 0])
    ELSE R([Continuation(pre.p, "ready") EXCEPT !.isEOL = TRUE], [ok |-> TRUE, size |-> pre.size])
    : pre \in {ReadLiteralPrefix(q)} })

\* The reader ReadLiteralStream returns is io.LimitReader(p.r, size): v.size
\* is its limit, v.ok is FALSE for the nil reader.
ReadLiteralStream(q) ==
  The({
    IF ~Valid(pre.p) THEN R(pre.p, [ok |-> FALSE, size |-> 0])
    ELSE R([(IF pre.sync THEN Continuation(pre.p, "ready") ELSE pre.p) EXCEPT !.isEOL = TRUE], [ok |-> TRUE, size |-> pre.size])
    : pre \in {ReadLiteralPrefix(q)} })

\* ReadAll stopping at the end of a line inside the literal
ReadAllLimited_Line(q, size) ==
  The({
    [p |-> [q EXCEPT !.r = From(@, k),
                    !.io = IF size > 0 THEN Append(@, [op |-> "read", n |-> size]) ELSE @],
    bs |-> Slice(q.r, 0, k),
    err |-> Nil]
    : k \in {IF IndexLF(q.r, 1) > 0 /\ IndexLF(q.r, 1) <= size THEN IndexLF(q.r, 1)
             ELSE IF size <= Len(q.r) THEN size ELSE Len(q.r)} })

\* ioutil.ReadAll over the limited reader: [p, bs, err]. ReadAll reports the
\* end of the stream as success and every other read error as an error.
ReadAllLimited(q, size) ==
  The({
    [p |-> [q EXCEPT !.r = From(@, k),
                    !.io = IF size > 0 THEN Append(@, [op |-> "read", n |-> size]) ELSE @],
    bs |-> Slice(q.r, 0, k),
    err |-> IF size > Len(q.r) /\ q.rEnd # ErrEOF THEN q.rEnd ELSE Nil]
    : k \in {IF size <= Len(q.r) THEN size ELSE Len(q.r)} })

ReadLiteral(q) ==
  The({
    IF ~Valid(st.p) THEN R(st.p, "") ELSE The({
      R(IF got.err # Nil THEN [got.p EXCEPT !.err = got.err] ELSE got.p, got.bs)
      : got \in {ReadAllLimited(st.p, st.v.size)} })
    : st \in {ReadLiteralStream(q)} })

ReadStringWithExtra(q, extra) ==
  The({
    IF ~Valid(pk.p) THEN R(pk.p, "")
    ELSE CASE pk.v = "{" -> ReadLiteral(pk.p)
           [] pk.v = "\"" -> ReadQuotedString(pk.p)
           [] OTHER -> ReadAtomWithExtra(pk.p, extra)
    : pk \in {Peek(q)} })

ReadString(q) == ReadStringWithExtra(q, NoExtra)

ReadAstring(q) == ReadStringWithExtra(q, {"]"})

ReadEOL(q) ==
  The({
    IF Valid(q1) THEN [q1 EXCEPT !.isEOL = TRUE] ELSE q1
    : q1 \in {Expect(q, crlf)} })

DiscardLine(q) == [q EXCEPT !.err = Nil, !.isEOL = TRUE]

(***************************************************************************)
(* Lists                                                                   *)
(***************************************************************************)
ReadListStart(q) ==
  The({
    IF ~Valid(q1) THEN q1 ELSE [q1 EXCEPT !.listDepth = @ + 1]
    : q1 \in {Expect(q, "(")} })

ReadListEnd(q) ==
  The({
    IF ~Valid(q1) THEN q1 ELSE [q1 EXCEPT !.listDepth = @ - 1]
    : q1 \in {Expect(q, ")")} })

\* The token reader handed to ReadList: p.ReadAtom or p.ReadString.
TokenReader(reader, q) == IF reader = "ReadAtom" THEN ReadAtom(q) ELSE ReadString(q)

\* The loop of ReadList: token(t) is its body once tokenReader() returned t,
\* closed(q1) the exit through ReadListEnd.
RECURSIVE listLoop(_, _, _)
\* the loop ending the list where the token reader fails, whatever is there
listLoop_Swallows(q, reader, list) ==
  The({
    IF ~Valid(t.p) THEN R([t.p EXCEPT !.err = Nil, !.listDepth = @ - 1], list)
    ELSE listLoop(ReadSpace(t.p), reader, Append(list, t.v))
    : t \in {TokenReader(reader, Tick(q))} })

listLoop(q, reader, list) ==
  The({
    IF ~Valid(t.p) THEN The({
      IF ~Valid(q1) THEN R(q1, <<>>) ELSE R(q1, list)
      : q1 \in {ReadListEnd([t.p EXCEPT !.err = Nil])} })
    ELSE listLoop(ReadSpace(t.p), reader, Append(list, t.v))
    : t \in {TokenReader(reader, Tick(q))} })

ReadList(q, reader) ==
  The({
    IF ~Valid(q1) THEN R(q1, <<>>) ELSE listLoop(q1, reader, <<>>)
    : q1 \in {ReadListStart(q)} })

ReadAtomList(q) == ReadList(q, "ReadAtom")

readStringList(q) == ReadList(q, "ReadString")

(***************************************************************************)
(* Sequence sets                                                           *)
(***************************************************************************)
Star == -1

\* Min taking the first stored endpoint for the minimum
RangeMin_First(r) == IF r[1] = Star THEN r[2] ELSE r[1]

\* SequenceRange.Min / SequenceRange.Max on a stored pair
RangeMin(r) ==
  IF r[1] = Star THEN r[2]
  ELSE IF r[2] = Star THEN r[1]
  ELSE IF r[1] <= r[2] THEN r[1] ELSE r[2]

RangeMax(r) ==
  IF r[2] = Star \/ r[1] = Star THEN Star
  ELSE IF r[2] >= r[1] THEN r[2] ELSE r[1]

\* One endpoint of readSequenceRange: `*`, or an integer that must be >= 1.
readEndpoint(q) ==
  The({
    IF a.v THEN R(a.p, Star) ELSE The({
      IF i.v < 1 /\ ~i.p.panic THEN R([i.p EXCEPT !.err = ErrSeqNoOutOfBounds], i.v) ELSE i
      : i \in {ReadInt(a.p)} })
    : a \in {accept(q, "*")} })

\* readSequenceRange storing the lower endpoint first
readSequenceRange_Sorted(q) ==
  The({
    The({
      IF ~c.v THEN R(c.p, <<first.v, first.v>>)
      ELSE IF ~Valid(c.p) THEN R(c.p, <<0, 0>>)
      ELSE The({
        IF ~Valid(second.p) THEN R(second.p, <<0, 0>>)
        ELSE R(second.p, <<RangeMin(<<first.v, second.v>>), RangeMax(<<first.v, second.v>>)>>)
        : second \in {readEndpoint(c.p)} })
      : c \in {accept(first.p, ":")} })
    : first \in {readEndpoint(q)} })

readSequenceRange(q) ==
  The({
    The({
      IF ~c.v THEN R(c.p, <<first.v, first.v>>)
      ELSE IF ~Valid(c.p) THEN R(c.p, <<0, 0>>)
      ELSE The({
        IF ~Valid(second.p) THEN R(second.p, <<0, 0>>) ELSE R(second.p, <<first.v, second.v>>)
        : second \in {readEndpoint(c.p)} })
      : c \in {accept(first.p, ":")} })
    : first \in {readEndpoint(q)} })

\* The loop of ReadSequenceSet; a SequenceSet is the sequence of its ranges.
RECURSIVE seqSetLoop(_, _)
seqSetLoop(q, set) ==
  The({
    IF ~Valid(rng.p) THEN R(rng.p, set)
    ELSE The({
      IF ~c.v THEN R(c.p, set1) ELSE seqSetLoop(c.p, set1)
      : c \in {accept(rng.p, ",")}, set1 \in {Append(set, rng.v)} })
    : rng \in {readSequenceRange(Tick(q))} })

ReadSequenceSet(q) == seqSetLoop(q, <<>>)

\* Foreach: the bounds of the inner loop for one range
localMin(rng, max) == IF RangeMin(rng) = Star THEN max ELSE RangeMin(rng)

localMax(rng, max) == IF RangeMax(rng) = Star \/ RangeMax(rng) > max THEN max ELSE RangeMax(rng)

CallbackErr == "callback failed"

\* The loops of Foreach: k is the index of the range, i the inner loop's
\* counter. The callback fails on its failAt-th call (never when failAt = 0).
\* The result holds the values it was called with, in order, and the error
\* Foreach returns.
RECURSIVE foreachLoop(_, _, _, _, _, _)
\* the loops going on as if the callback had not failed
foreachLoop_IgnoresError(ranges, k, i, max, failAt, calls) ==
  IF k > Len(ranges) THEN [calls |-> calls, err |-> Nil]
  ELSE IF i > localMax(ranges[k], max)
  THEN IF k + 1 > Len(ranges) THEN [calls |-> calls, err |-> Nil]
       ELSE foreachLoop(ranges, k + 1, localMin(ranges[k + 1], max), max, failAt, calls)
  ELSE foreachLoop(ranges, k, i + 1, max, failAt, Append(calls, i))

foreachLoop(ranges, k, i, max, failAt, calls) ==
  IF k > Len(ranges) THEN [calls |-> calls, err |-> Nil]
  ELSE IF i > localMax(ranges[k], max)
  THEN IF k + 1 > Len(ranges) THEN [calls |-> calls, err |-> Nil]
       ELSE foreachLoop(ranges, k + 1, localMin(ranges[k + 1], max), max, failAt, calls)
  ELSE IF Len(calls) + 1 = failAt THEN [calls |-> Append(calls, i), err |-> CallbackErr]
  ELSE foreachLoop(ranges, k, i + 1, max, failAt, Append(calls, i))

Foreach(set, max, failAt) ==
  IF Len(set) = 0 THEN [calls |-> <<>>, err |-> Nil]
  ELSE foreachLoop(set, 1, localMin(set[1], max), max, failAt, <<>>)

(***************************************************************************)
(* Dates: time.Parse with the layout "_2-Jan-2006"                         *)
(***************************************************************************)
shortMonthNames == <<"jan", "feb", "mar", "apr", "may", "jun", "jul", "aug", "sep", "oct", "nov", "dec">>

\* lookup(shortMonthNames, value): the month's number, 0 when there is none
MonthIndex(s) ==
  IF \E m \in 1..12 : shortMonthNames[m] = ToLower(s)
  THEN CHOOSE m \in 1..12 : shortMonthNames[m] = ToLower(s)
  ELSE 0

IsLeap(y) == y % 4 = 0 /\ (y % 100 # 0 \/ y % 400 = 0)

daysIn(m, y) ==
  IF m = 2 THEN (IF IsLeap(y) THEN 29 ELSE 28)
  ELSE IF m \in {4, 6, 9, 11} THEN 30 ELSE 31

IsDigitAt(s, i) == i < Len(s) /\ Byte(s, i) \in DigitSet

AllDigits(s) == \A i \in 0..(Len(s) - 1) : Byte(s, i) \in DigitSet

\* The zero result of ReadDate, time.Unix(0, 0)
ZeroDate == [y |-> 1970, m |-> 1, d |-> 1]

\* time.Parse, [ok, date]: a day of one or two digits after an optional
\* space, "-", a month name in any case, "-", a year of exactly four digits,
\* nothing more, and a day that exists in that month.
ParseDate(s) ==
  LET fails == [ok |-> FALSE, date |-> ZeroDate]
      checked(d, mon, y) ==
        IF d < 1 \/ d > daysIn(mon, y) THEN fails
        ELSE [ok |-> TRUE, date |-> [y |-> y, m |-> mon, d |-> d]]
      stdLongYear(d, mon, v) ==
        IF Len(v) # 4 \/ ~AllDigits(v) THEN fails ELSE checked(d, mon, AtoiValue(v, 0))
      stdMonthFound(d, mon, v) ==
        IF mon = 0 \/ Len(v) < 4 \/ Byte(v, 3) # "-" THEN fails ELSE stdLongYear(d, mon, From(v, 4))
      stdMonth(d, v) ==
        IF Len(v) < 3 THEN fails ELSE stdMonthFound(d, MonthIndex(Slice(v, 0, 3)), v)
      stdDay(v, nd) ==
        IF nd = 0 \/ Len(v) <= nd \/ Byte(v, nd) # "-" THEN fails
        ELSE stdMonth(AtoiValue(Slice(v, 0, nd), 0), From(v, nd + 1))
      digits(v) == IF IsDigitAt(v, 0) THEN (IF IsDigitAt(v, 1) THEN 2 ELSE 1) ELSE 0
      stdUnderDay(v) == stdDay(v, digits(v))
  IN stdUnderDay(IF Len(s) > 0 /\ Byte(s, 0) = " " THEN From(s, 1) ELSE s)

ReadDate(q) ==
  The({
    IF ~Valid(s.p) THEN R(s.p, ZeroDate) ELSE The({
      IF ~t.ok THEN R([s.p EXCEPT !.err = ErrTimeParse], ZeroDate) ELSE R(s.p, t.date)
      : t \in {ParseDate(s.v)} })
    : s \in {ReadString(q)} })

(***************************************************************************)
(* Search terms                                                            *)
(***************************************************************************)
FlagAnswered == "\\Answered"

FlagFlagged == "\\Flagged"

FlagDeleted == "\\Trashed"

FlagSeen == "\\Seen"

FlagDraft == "\\Draft"

FlagRecent == "\\Recent"

\* the nil Term
NilTerm == [k |-> "nil"]

AllTerm == [k |-> "All"]

FlagTerm(flag, present) == [k |-> "Flag", Flag |-> flag, Present |-> present]

StringTerm(o, field, str) == [k |-> "String", Op |-> o, Field |-> field, String |-> str]

DateTerm(o, field, date) == [k |-> "Date", Op |-> o, Field |-> field, Date |-> date]

IntTerm(o, field, i) == [k |-> "Int", Op |-> o, Field |-> field, Int |-> i]

SetTerm(o, field, set) == [k |-> "Set", Op |-> o, Field |-> field, Set |-> set]

\* a BooleanTerm holding its terms last to first
BooleanTerm_Reversed(o, terms) ==
  [k |-> "Boolean", Op |-> o, Terms |-> [i \in 1..Len(terms) |-> terms[Len(terms) + 1 - i]]]

BooleanTerm(o, terms) == [k |-> "Boolean", Op |-> o, Terms |-> terms]

UnaryTerm(o, term) == [k |-> "Unary", Op |-> o, Term |-> term]

\* The keywords in the order of ReadSearchKey's if / else-if chain
searchKeywords ==
  <<"all", "answered", "bcc", "before", "body", "cc", "deleted", "flagged", "from",
    "keyword", "new", "old", "on", "recent", "seen", "since", "subject", "text", "to",
    "unanswered", "undeleted", "unflagged", "unkeyword", "unseen", "draft", "header",
    "larger", "not", "or", "sentbefore", "senton", "sentsince", "smaller", "uid",
    "undraft", "(">>

\* The chain of p.accept calls: the first keyword accepted ("" when none is),
\* with the parser as the failed accepts before it left it.
RECURSIVE acceptFirst(_, _)
acceptFirst(q, i) ==
  IF i > Len(searchKeywords) THEN R(q, "")
  ELSE IF accept(q, searchKeywords[i]).v THEN R(accept(q, searchKeywords[i]).p, searchKeywords[i])
  ELSE acceptFirst(accept(q, searchKeywords[i]).p, i + 1)

\* keyword, ReadSpace, one payload
astringKey(q, field) ==
  The({
    R(s.p, StringTerm("OpContains", field, s.v))
    : s \in {ReadAstring(ReadSpace(q))} })

stringKey(q, field) ==
  The({
    R(s.p, StringTerm("OpContains", field, s.v))
    : s \in {ReadString(ReadSpace(q))} })

dateKey(q, o, field) ==
  The({
    R(dt.p, DateTerm(o, field, dt.v))
    : dt \in {ReadDate(ReadSpace(q))} })

intKey(q, o) ==
  The({
    R(i.p, IntTerm(o, "Size", i.v))
    : i \in {ReadInt(ReadSpace(q))} })

keywordKey(q, present) ==
  The({
    R(a.p, FlagTerm(a.v, present))
    : a \in {ReadAtom(ReadSpace(q))} })

headerKey(q) ==
  The({
    The({
      R(s.p, StringTerm("OpContains", "header." \o field.v, s.v))
      : s \in {ReadString(ReadSpace(field.p))} })
    : field \in {ReadAstring(ReadSpace(q))} })

newKey == BooleanTerm("OpAnd", <<FlagTerm(FlagRecent, TRUE), FlagTerm(FlagSeen, FALSE)>>)

\* the UID key taken for a set of message sequence numbers
uidKey_MSN(q) ==
  The({
    R(set.p, SetTerm("OpIn", "MSN", set.v))
    : set \in {ReadSequenceSet(ReadSpace(q))} })

uidKey(q) ==
  The({
    R(set.p, SetTerm("OpIn", "UID", set.v))
    : set \in {ReadSequenceSet(ReadSpace(q))} })

msnKey(q) ==
  The({
    IF ~Valid(set.p) THEN R(set.p, NilTerm) ELSE R(set.p, SetTerm("OpIn", "MSN", set.v))
    : set \in {ReadSequenceSet(q)} })

\* OR keeping the *AllTerm operand instead of the other one
orTerm_KeepsAll(key1, key2) ==
  IF key1.k = "All" THEN key1
  ELSE IF key2.k = "All" THEN key2
  ELSE BooleanTerm("OpOr", <<key1, key2>>)

\* OR: an operand that is an *AllTerm is dropped
orTerm(key1, key2) ==
  IF key1.k = "All" THEN key2
  ELSE IF key2.k = "All" THEN key1
  ELSE BooleanTerm("OpOr", <<key1, key2>>)

\* the group returned as an AND node even when it holds one term
groupTerm_Always(terms) == BooleanTerm("OpAnd", terms)

\* the parenthesized group: one term is returned as it is
groupTerm(terms) == IF Len(terms) = 1 THEN terms[1] ELSE BooleanTerm("OpAnd", terms)

RECURSIVE ReadSearchKey(_)
RECURSIVE groupLoop(_, _)
RECURSIVE groupKey(_)
RECURSIVE notKey(_)
RECURSIVE orKey(_)

notKey(q) ==
  The({
    R(t.p, UnaryTerm("OpNot", t.v))
    : t \in {ReadSearchKey(ReadSpace(q))} })

orKey(q) ==
  The({
    The({
      R(key2.p, orTerm(key1.v, key2.v))
      : key2 \in {ReadSearchKey(ReadSpace(key1.p))} })
    : key1 \in {ReadSearchKey(ReadSpace(q))} })

\* the loop `for !p.accept(")")` of the group
groupLoop(q, terms) ==
  The({
    IF c.v THEN R(c.p, terms) ELSE The({
      IF ~Valid(t.p) THEN R(t.p, Append(terms, t.v)) ELSE groupLoop(t.p, Append(terms, t.v))
      : t \in {ReadSearchKey(ReadSpace(c.p))} })
    : c \in {accept(Tick(q), ")")} })

groupKey(q) ==
  The({
    The({
      R(g.p, groupTerm(g.v))
      : g \in {groupLoop(t.p, <<t.v>>)} })
    : t \in {ReadSearchKey(q)} })

ReadSearchKey(q) ==
  IF ~Valid(Tick(q)) THEN R(Tick(q), NilTerm) ELSE The({
    (CASE kw.v = "all" -> R(kw.p, AllTerm)
      [] kw.v = "answered" -> R(kw.p, FlagTerm(FlagAnswered, TRUE))
      [] kw.v = "bcc" -> astringKey(kw.p, "Bcc")
      [] kw.v = "before" -> dateKey(kw.p, "OpLT", "InternalDate")
      [] kw.v = "body" -> stringKey(kw.p, "Body")
      [] kw.v = "cc" -> astringKey(kw.p, "Cc")
      [] kw.v = "deleted" -> R(kw.p, FlagTerm(FlagDeleted, TRUE))
      [] kw.v = "flagged" -> R(kw.p, FlagTerm(FlagFlagged, TRUE))
      [] kw.v = "from" -> astringKey(kw.p, "From")
      [] kw.v = "keyword" -> keywordKey(kw.p, TRUE)
      [] kw.v = "new" -> R(kw.p, newKey)
      [] kw.v = "old" -> R(kw.p, FlagTerm(FlagRecent, FALSE))
      [] kw.v = "on" -> dateKey(kw.p, "OpEquals", "InternalDate")
      [] kw.v = "recent" -> R(kw.p, FlagTerm(FlagRecent, TRUE))
      [] kw.v = "seen" -> R(kw.p, FlagTerm(FlagSeen, TRUE))
      [] kw.v = "since" -> dateKey(kw.p, "OpGTE", "InternalDate")
      [] kw.v = "subject" -> astringKey(kw.p, "Subject")
      [] kw.v = "text" -> astringKey(kw.p, "Text")
      [] kw.v = "to" -> astringKey(kw.p, "To")
      [] kw.v = "unanswered" -> R(kw.p, FlagTerm(FlagAnswered, FALSE))
      [] kw.v = "undeleted" -> R(kw.p, FlagTerm(FlagDeleted, FALSE))
      [] kw.v = "unflagged" -> R(kw.p, FlagTerm(FlagFlagged, FALSE))
      [] kw.v = "unkeyword" -> keywordKey(kw.p, FALSE)
      [] kw.v = "unseen" -> R(kw.p, FlagTerm(FlagSeen, FALSE))
      [] kw.v = "draft" -> R(kw.p, FlagTerm(FlagDraft, TRUE))
      [] kw.v = "header" -> headerKey(kw.p)
      [] kw.v = "larger" -> intKey(kw.p, "OpGTE")
      [] kw.v = "not" -> notKey(kw.p)
      [] kw.v = "or" -> orKey(kw.p)
      [] kw.v = "sentbefore" -> dateKey(kw.p, "OpLT", "Date")
      [] kw.v = "senton" -> dateKey(kw.p, "OpEquals", "Date")
      [] kw.v = "sentsince" -> dateKey(kw.p, "OpGTE", "Date")
      [] kw.v = "smaller" -> intKey(kw.p, "OpLT")
      [] kw.v = "uid" -> uidKey(kw.p)
      [] kw.v = "undraft" -> R(kw.p, FlagTerm(FlagDraft, FALSE))
      [] kw.v = "(" -> groupKey(kw.p)
      [] OTHER -> msnKey(kw.p))
    : kw \in {acceptFirst(Tick(q), 1)} })

\* The loop `for p.accept(" ")` of ReadSearch over the keys after the first
RECURSIVE searchLoop(_, _)
searchLoop(q, terms) ==
  The({
    IF ~c.v THEN R(c.p, terms) ELSE The({
      searchLoop(t.p, Append(terms, t.v))
      : t \in {ReadSearchKey(c.p)} })
    : c \in {accept(Tick(q), " ")} })

\* ReadSearch returns (charset, query): v is [charset, query]
ReadSearch(q) ==
  The({
    The({
      The({
        The({
          R(all.p, [charset |-> cs.v,
          query |-> IF Len(all.v) = 1 THEN all.v[1] ELSE BooleanTerm("OpAnd", all.v)])
          : all \in {searchLoop(t.p, <<t.v>>)} })
        : t \in {ReadSearchKey(cs.p)} })
      : cs \in {IF c.v THEN The({
      R(ReadSpace(s.p), s.v)
      : s \in {ReadString(ReadSpace(c.p))} }) ELSE R(c.p, "us-ascii")} })
    : c \in {accept(ReadSpace(q), "CHARSET")} })

(***************************************************************************)
(* Fetch attributes                                                        *)
(***************************************************************************)
\* the nil FetchAttribute
NilAttr == [kind |-> "nil"]

BasicFetchAttribute(name) == [kind |-> "basic", name |-> name]

BodystructureFetchAttribute(includeExtensions) == [kind |-> "bodystructure", ext |-> includeExtensions]

basicFields == {"FLAGS", "INTERNALDATE", "RFC822", "RFC822.HEADER", "RFC822.SIZE", "RFC822.TEXT", "ENVELOPE", "UID"}

UnknownFieldError == "unknown field"

\* [fa, err]
parseFetchAttribute(field) ==
  CASE field = "BODY" -> [fa |-> BodystructureFetchAttribute(FALSE), err |-> Nil]
    [] field = "BODYSTRUCTURE" -> [fa |-> BodystructureFetchAttribute(TRUE), err |-> Nil]
    [] field \in basicFields -> [fa |-> BasicFetchAttribute(field), err |-> Nil]
    [] OTHER -> [fa |-> NilAttr, err |-> UnknownFieldError]

FetchAll == ""

FetchText == "TEXT"

FetchHeader == "HEADER"

FetchHeaderFields == "HEADER.FIELDS"

FetchHeaderFieldsNot == "HEADER.FIELDS.NOT"

InvalidPartSpecifier == "invalid part specifier"

\* strconv.Itoa of a non-negative integer
RECURSIVE Itoa(_)
Itoa(i) == IF i < 10 THEN Byte(Digits, i) ELSE Itoa(i \div 10) \o Byte(Digits, i % 10)

readBodyAttributeStart(q) ==
  The({
    The({
      R([q1 EXCEPT !.inSection = TRUE], pk.v)
      : q1 \in {Expect(pk.p, "[")} })
    : pk \in {accept(Expect(q, "BODY"), ".PEEK")} })

readBodyAttributePartial(q) ==
  The({
    The({
      R(Expect(second.p, ">"), <<first.v, second.v>>)
      : second \in {ReadInt(Expect(first.p, "."))} })
    : first \in {ReadInt(Expect(q, "<"))} })

\* readBodyAttributeEnd: [p, hasPartial, rng]
readBodyAttributeEnd(q) ==
  The({
    IF ~Valid(q1) THEN [p |-> q1, hasPartial |-> FALSE, rng |-> <<0, 0>>]
    ELSE The({
      IF pk.v = "<" THEN The({
        [p |-> pr.p, hasPartial |-> TRUE, rng |-> pr.v]
        : pr \in {readBodyAttributePartial(pk.p)} })
      ELSE [p |-> pk.p, hasPartial |-> FALSE, rng |-> <<0, 0>>]
      : pk \in {Peek([q1 EXCEPT !.inSection = FALSE])} })
    : q1 \in {Expect(q, "]")} })

\* The part path loop of ReadBodyAttribute: [p, ok, part]
RECURSIVE partLoop(_, _, _)
\* the loop leaving num set at a `.`, so that it meets the same `.` again
partLoop_KeepsNum(q, part, num) ==
  The({
    IF ~Valid(pk.p) THEN [p |-> pk.p, ok |-> FALSE, part |-> part]
    ELSE IF pk.v \in (DigitSet \ {"0"}) THEN The({
      IF ~Valid(i.p) THEN [p |-> i.p, ok |-> FALSE, part |-> part]
      ELSE partLoop(i.p, (IF Len(part) > 0 THEN part \o "." ELSE part) \o Itoa(i.v), TRUE)
      : i \in {ReadInt(pk.p)} })
    ELSE IF pk.v = "." /\ num THEN partLoop(pk.p, part, TRUE)
    ELSE [p |-> pk.p, ok |-> TRUE, part |-> part]
    : pk \in {Peek(Tick(q))} })

partLoop(q, part, num) ==
  The({
    IF ~Valid(pk.p) THEN [p |-> pk.p, ok |-> FALSE, part |-> part]
    ELSE IF pk.v \in (DigitSet \ {"0"}) THEN The({
      IF ~Valid(i.p) THEN [p |-> i.p, ok |-> FALSE, part |-> part]
      ELSE partLoop(i.p, (IF Len(part) > 0 THEN part \o "." ELSE part) \o Itoa(i.v), TRUE)
      : i \in {ReadInt(pk.p)} })
    ELSE IF pk.v = "." /\ num THEN partLoop(pk.p, part, FALSE)
    ELSE [p |-> pk.p, ok |-> TRUE, part |-> part]
    : pk \in {Peek(Tick(q))} })

BodyFetchAttribute(peek, part, mode, headerList, hasPartial, partial) ==
  [kind |-> "body", peek |-> peek, part |-> part, mode |-> mode,
   headerList |-> headerList, hasPartial |-> hasPartial, partial |-> partial]

\* The mode atom of ReadBodyAttribute and its payload: [p, ok, mode, headerList]
readBodyMode(q) ==
  The({
    CASE m.v = FetchText -> [p |-> m.p, ok |-> TRUE, mode |-> FetchText, headerList |-> <<>>]
    [] m.v = FetchHeader -> [p |-> m.p, ok |-> TRUE, mode |-> FetchHeader, headerList |-> <<>>]
    [] m.v = FetchHeaderFields -> The({
      [p |-> l.p, ok |-> Valid(l.p), mode |-> FetchHeaderFields, headerList |-> l.v]
      : l \in {readStringList(Expect(m.p, " "))} })
    [] m.v = FetchHeaderFieldsNot -> The({
      [p |-> l.p, ok |-> Valid(l.p), mode |-> FetchHeaderFieldsNot, headerList |-> l.v]
      : l \in {readStringList(m.p)} })
    [] OTHER -> [p |-> [m.p EXCEPT !.err = InvalidPartSpecifier], ok |-> FALSE,
                 mode |-> FetchAll, headerList |-> <<>>]
    : m \in {ReadAtom(q)} })

ReadBodyAttribute(q) ==
  The({
    IF ~Valid(st.p) THEN R(st.p, NilAttr) ELSE The({
      IF ~pl.ok THEN R(pl.p, NilAttr) ELSE The({
        IF ~Valid(pk.p) THEN R(pk.p, NilAttr)
        ELSE The({
          IF ~Valid(q1) THEN R(q1, NilAttr) ELSE The({
            IF ~Valid(c.p) THEN R(c.p, NilAttr)
            ELSE The({
              IF ~md.ok THEN R(md.p, NilAttr) ELSE The({
                R(e.p, BodyFetchAttribute(st.v, pl.part, md.mode, md.headerList, e.hasPartial, e.rng))
                : e \in {readBodyAttributeEnd(md.p)} })
              : md \in {IF c.v # " " /\ c.v # "]" THEN readBodyMode(c.p) ELSE ([p |-> c.p, ok |-> TRUE, mode |-> FetchAll, headerList |-> <<>>])} })
            : c \in {Peek(q1)} })
          : q1 \in {IF pk.v # "." THEN pk.p
               ELSE IF pl.part = "" THEN [pk.p EXCEPT !.err = InvalidPartSpecifier]
               ELSE advance(pk.p, 1)} })
        : pk \in {Peek(pl.p)} })
      : pl \in {partLoop(st.p, "", FALSE)} })
    : st \in {readBodyAttributeStart(q)} })

\* ReadFetchAttribute without the reset of the atom's error
ReadFetchAttribute_KeepsError(q) ==
  The({
    IF ~Valid(f.p) THEN ReadBodyAttribute(f.p)
    ELSE The({
      R(IF fa.err # Nil THEN [f.p EXCEPT !.err = fa.err] ELSE f.p, fa.fa)
      : fa \in {parseFetchAttribute(f.v)} })
    : f \in {ReadAtom(q)} })

ReadFetchAttribute(q) ==
  The({
    IF ~Valid(f.p) THEN ReadBodyAttribute([f.p EXCEPT !.err = Nil])
    ELSE The({
      R(IF fa.err # Nil THEN [f.p EXCEPT !.err = fa.err] ELSE f.p, fa.fa)
      : fa \in {parseFetchAttribute(f.v)} })
    : f \in {ReadAtom(q)} })

\* The loop `for p.accept(" ")` of ReadFetchAttributeList, through ReadListEnd
RECURSIVE fetchListLoop(_, _)
fetchListLoop(q, list) ==
  The({
    IF ~c.v THEN R(ReadListEnd(c.p), list)
    ELSE IF ~Valid(c.p) THEN R(c.p, <<>>)
    ELSE The({
      fetchListLoop(fa.p, Append(list, fa.v))
      : fa \in {ReadFetchAttribute(c.p)} })
    : c \in {accept(Tick(q), " ")} })

ReadFetchAttributeList(q) ==
  The({
    IF ~Valid(q1) THEN R(q1, <<>>) ELSE The({
      fetchListLoop(fa.p, <<fa.v>>)
      : fa \in {ReadFetchAttribute(q1)} })
    : q1 \in {ReadListStart(q)} })

\* Header.AsText of the mail library: the lines of the fields, one after
\* another
RECURSIVE AsText(_)
AsText(fields) ==
  IF fields = <<>> THEN "" ELSE Head(fields).line \o AsText(Tail(fields))

\* the fields the removal loops of Marshal leave: those a name of the header
\* list names, the case of the letters set aside (keep), or the others
RECURSIVE keepFields(_, _, _)
keepFields(fields, headerList, keep) ==
  IF fields = <<>> THEN <<>>
  ELSE (IF (\E i \in 1..Len(headerList) : ToLower(headerList[i]) = ToLower(Head(fields).name)) = keep
        THEN <<Head(fields)>> ELSE <<>>)
       \o keepFields(Tail(fields), headerList, keep)

\* the switch on fa.mode over a message or a body part m; whole is the text
\* of the default case
sectionText(m, mode, headerList, whole) ==
  CASE mode = FetchText -> m.Text
    [] mode = FetchHeader -> AsText(m.Fields)
    [] mode = FetchHeaderFields -> AsText(keepFields(m.Fields, headerList, TRUE))
    [] mode = FetchHeaderFieldsNot -> AsText(keepFields(m.Fields, headerList, FALSE))
    [] OTHER -> whole

\* the text Marshal materializes before the partial range: of the message,
\* of the body part msg.BodyPart finds, or nothing for a missing part
materialize(fa, msg) ==
  IF fa.part = "" THEN sectionText(msg, fa.mode, fa.headerList, msg.RFC822)
  ELSE IF fa.part \notin DOMAIN msg.Parts THEN ""
  ELSE sectionText(msg.Parts[fa.part], fa.mode, fa.headerList,
                   AsText(msg.Parts[fa.part].Fields) \o "\n" \o msg.Parts[fa.part].Text)

\* the partial range of Marshal on the text result: [panic, result]; the
\* slice result[l:r] panics when r is beyond the end of the text
clampPartial(fa, result) ==
  IF ~fa.hasPartial THEN [panic |-> FALSE, result |-> result]
  ELSE The({
    The({
      IF r > Len(result) THEN [panic |-> TRUE, result |-> ""]
      ELSE [panic |-> FALSE, result |-> Slice(result, l, r)]
      : r \in {IF fa.partial[2] < l THEN l ELSE fa.partial[2]} })
    : l \in {IF fa.partial[1] > Len(result) THEN Len(result) ELSE fa.partial[1]} })

\* BodyFetchAttribute.Marshal: [panic, out]
Marshal(fa, msg) ==
  The({
    IF c.panic THEN [panic |-> TRUE, out |-> ""]
    ELSE [panic |-> FALSE, out |-> "{" \o Itoa(Len(c.result)) \o "}" \o crlf \o c.result]
    : c \in {clampPartial(fa, materialize(fa, msg))} })

\* FAST and ALL taken for each other
macroFields_Swapped(macro) ==
  CASE macro = "FAST" -> <<"FLAGS", "INTERNALDATE", "RFC822.SIZE", "ENVELOPE">>
    [] macro = "ALL" -> <<"FLAGS", "INTERNALDATE", "RFC822.SIZE">>
    [] macro = "FULL" -> <<"FLAGS", "INTERNALDATE", "RFC822.SIZE", "ENVELOPE", "BODY">>
    [] OTHER -> <<>>

macroFields(macro) ==
  CASE macro = "ALL" -> <<"FLAGS", "INTERNALDATE", "RFC822.SIZE", "ENVELOPE">>
    [] macro = "FAST" -> <<"FLAGS", "INTERNALDATE", "RFC822.SIZE">>
    [] macro = "FULL" -> <<"FLAGS", "INTERNALDATE", "RFC822.SIZE", "ENVELOPE", "BODY">>
    [] OTHER -> <<>>

ReadFetchAttributes(q) ==
  The({
    IF ~Valid(pk.p) THEN R(pk.p, <<>>)
    ELSE IF pk.v = "(" THEN ReadFetchAttributeList(pk.p)
    ELSE The({
      IF ~Valid(m.p) THEN The({
        IF ~Valid(b.p) THEN R(b.p, <<>>) ELSE R(b.p, <<b.v>>)
        : b \in {ReadBodyAttribute([m.p EXCEPT !.err = Nil])} })
      ELSE IF m.v \in {"ALL", "FAST", "FULL"} THEN The({
        R(m.p, [i \in 1..Len(fields) |-> parseFetchAttribute(fields[i]).fa])
        : fields \in {macroFields(m.v)} })
      ELSE The({
        IF f.err # Nil THEN R([m.p EXCEPT !.err = f.err], <<>>) ELSE R(m.p, <<f.fa>>)
        : f \in {parseFetchAttribute(m.v)} })
      : m \in {ReadAtom(pk.p)} })
    : pk \in {Peek(q)} })

(***************************************************************************)
(* Requests                                                                *)
(***************************************************************************)
\* the nil *Request
NilRequest == [kind |-> "nil"]

Request(tag, command) == [kind |-> "request", Tag |-> tag, Command |-> command]

\* ReadRequest with the command as the client wrote it
ReadRequest_AsWritten(q) ==
  The({
    The({
      IF ~Valid(cmd.p) THEN R(cmd.p, [req |-> NilRequest, err |-> cmd.p.err])
      ELSE R(cmd.p, [req |-> Request(tag.v, cmd.v), err |-> Nil])
      : cmd \in {ReadAtom(ReadSpace(tag.p))} })
    : tag \in {ReadAtom(q)} })

\* Conn.ReadRequest on the connection's parser: [req, err]
ReadRequest(q) ==
  The({
    The({
      IF ~Valid(cmd.p) THEN R(cmd.p, [req |-> NilRequest, err |-> cmd.p.err])
      ELSE R(cmd.p, [req |-> Request(tag.v, ToUpper(cmd.v)), err |-> Nil])
      : cmd \in {ReadAtom(ReadSpace(tag.p))} })
    : tag \in {ReadAtom(q)} })

(***************************************************************************)
(* Bounds of the inputs                                                    *)
(***************************************************************************)
\* the largest declared literal size of an input
MaxLiteral == 3

\* the longest body, in elements, of a generated quoted string
MaxQuoted == 2

\* the largest sequence number of an input
MaxSeq == 9

\* the largest max handed to Foreach
MaxBound == 6

\* the latest callback call that fails
MaxFail == 3

\* the most keys of a query
MaxKeys == 2

\* the most keys of a parenthesized group
MaxGroup == 2

\* the most bytes of a generated atom after its backslash, if it has one
MaxAtom == 3

\* the most lines of a client stream
MaxLines == 2

(***************************************************************************)
(* The state machine: NewParser over a client stream, then the caller's    *)
(* operations one after another.                                           *)
(***************************************************************************)
\* NewParser: an empty line, at end of line, over the stream r whose reads
\* fail with rEnd once its bytes are used up.
NewParser(r, rEnd) ==
  [line |-> "", pos |-> 0, isEOL |-> TRUE, inSection |-> FALSE, listDepth |-> 0,
   err |-> Nil, r |-> r, rEnd |-> rEnd, io |-> <<>>, panic |-> FALSE, steps |-> 0]

\* The test helper: the parser always reads lines, so the input gets a CRLF.
NewBuffer(text) == text \o crlf

\* NewSequenceSetWithRange: the set of one range
NewSequenceSetWithRange(rng) == <<rng>>

\* One call of a parser method: res is the method's [p, v].
Call(name, res) ==
  /\ ~p.panic
  /\ p' = [res.p EXCEPT !.steps = 0]
  /\ steps' = res.p.steps
  /\ op' = name
  /\ arg' = [p |-> p]
  /\ ret' = res.v
  /\ UNCHANGED input

DoReadAtom == Call("ReadAtom", ReadAtom(p))

DoReadInt == Call("ReadInt", ReadInt(p))

DoReadQuotedString == Call("ReadQuotedString", ReadQuotedString(p))

DoReadString == Call("ReadString", ReadString(p))

DoReadAstring == Call("ReadAstring", ReadAstring(p))

DoReadLiteral == Call("ReadLiteral", ReadLiteral(p))

DoReadSpace == Call("ReadSpace", R(ReadSpace(p), ""))

DoReadEOL == Call("ReadEOL", R(ReadEOL(p), ""))

DoDiscardLine == Call("DiscardLine", R(DiscardLine(p), ""))

DoReadAtomList == Call("ReadAtomList", ReadAtomList(p))

\* ReadList(p.ReadString)
DoReadStringList == Call("ReadStringList", readStringList(p))

DoReadListStart == Call("ReadListStart", R(ReadListStart(p), ""))

DoReadListEnd == Call("ReadListEnd", R(ReadListEnd(p), ""))

DoReadSequenceSet == Call("ReadSequenceSet", ReadSequenceSet(p))

DoReadSearchKey == Call("ReadSearchKey", ReadSearchKey(p))

DoReadSearch == Call("ReadSearch", ReadSearch(p))

DoReadFetchAttribute == Call("ReadFetchAttribute", ReadFetchAttribute(p))

DoReadFetchAttributes == Call("ReadFetchAttributes", ReadFetchAttributes(p))

DoReadRequest == Call("ReadRequest", ReadRequest(p))

\* set.Foreach(max, callback) on the set ReadSequenceSet has just returned;
\* the callback fails on its failAt-th call.
DoForeach ==
  /\ op = "ReadSequenceSet" /\ Valid(p)
  /\ \E max \in 1..MaxBound, failAt \in 0..MaxFail :
       /\ op' = "Foreach"
       /\ arg' = [set |-> ret, max |-> max, failAt |-> failAt]
       /\ ret' = Foreach(ret, max, failAt)
  /\ steps' = 0
  /\ UNCHANGED <<p, input>>

\* Each range of the set just returned, taken by itself: rng.Min(), rng.Max()
\* and what Foreach(max, callback) enumerates over the set of that one range.
DoEachRange ==
  /\ op = "ReadSequenceSet" /\ Valid(p)
  /\ \E max \in 1..MaxBound :
       /\ op' = "EachRange"
       /\ arg' = [set |-> ret, max |-> max]
       /\ ret' = [k \in 1..Len(ret) |->
                    [min |-> RangeMin(ret[k]), max |-> RangeMax(ret[k]),
                     calls |-> Foreach(NewSequenceSetWithRange(ret[k]), max, 0).calls]]
  /\ steps' = 0
  /\ UNCHANGED <<p, input>>

\* The state after NewParser over the stream r, built from what input says
\* fa.Marshal(msg) on the body attribute ReadFetchAttribute has just returned
DoMarshal ==
  /\ ~p.panic
  /\ op = "ReadFetchAttribute" /\ Valid(p) /\ ret.kind = "body"
  /\ op' = "Marshal"
  /\ arg' = [fa |-> ret, msg |-> input.msg]
  /\ ret' = Marshal(ret, input.msg)
  /\ p' = [p EXCEPT !.panic = Marshal(ret, input.msg).panic]
  /\ steps' = 0
  /\ UNCHANGED input

Start(in, r, rEnd) ==
  /\ p = NewParser(r, rEnd)
  /\ op = "init"
  /\ arg = [p |-> p]
  /\ ret = ""
  /\ input = in
  /\ steps = 0

(***************************************************************************)
(* Spec: the token readers over lines of tokens and literals               *)
(***************************************************************************)
\* Quoted-string bodies: plain bytes, the two escapes, and a bad escape
quotedElems == {"a", "\\\\", "\\\"", "\\a"}

RECURSIVE quotedBodies(_)
quotedBodies(n) ==
  IF n = 0 THEN {""}
  ELSE quotedBodies(n - 1) \cup {b \o e : b \in quotedBodies(n - 1), e \in quotedElems}

quotedInputs ==
  {"\"" \o b \o "\"" \o d : b \in quotedBodies(MaxQuoted), d \in {crlf, " x" \o crlf, "x" \o crlf}}
  \cup {"\"a" \o crlf, "\"a\\\"" \o crlf, "a\"" \o crlf, "(\"a\")" \o crlf}

\* Literals: the prefix in both forms, then body bytes that may hold CR and LF
literalBodies == {"", "abc", crlf \o "b", "a" \o crlf, "ab"}

literalInputs ==
  {"{" \o Itoa(n) \o plus \o "}" \o crlf \o b \o " x" \o crlf :
     n \in 0..MaxLiteral, plus \in {"", "+"}, b \in literalBodies}
  \cup {"{a}" \o crlf \o "abc", "{2" \o crlf \o "ab", "{2} " \o crlf \o "ab", "2}" \o crlf \o "ab"}

\* literals whose declared size is more than the stream holds
shortLiterals == {"{3}" \o crlf \o "ab", "{3+}" \o crlf, "{1}" \o crlf}

tokenInputs ==
  {"a1 LOGIN x" \o crlf, "\\seen \\* \\" \o crlf, "12 0 x" \o crlf,
   "a1 NOOP" \o crlf \o "a2 b)" \o crlf, "a", ""}

\* A stream ends at its last byte (io.EOF) or, where a literal is cut short,
\* also with a failed read.
Streams ==
  {[r |-> r, rEnd |-> ErrEOF] :
     r \in quotedInputs \cup literalInputs \cup shortLiterals \cup tokenInputs}
  \cup {[r |-> r, rEnd |-> ErrIO] : r \in shortLiterals}

Init == \E s \in Streams : Start(s, s.r, s.rEnd)

Next ==
  \/ DoReadAtom
  \/ DoReadInt
  \/ DoReadQuotedString
  \/ DoReadString
  \/ DoReadAstring
  \/ DoReadLiteral
  \/ DoReadSpace
  \/ DoReadEOL
  \/ DoDiscardLine

Spec == Init /\ [][Next]_vars

(***************************************************************************)
(* SpecFetch: lists and FETCH attributes                                   *)
(***************************************************************************)
fetchTexts ==
  {"BODY[TEXT] x", "(UID BODY.PEEK[1]<0.5>) x", "(a b) (a", "ALL x", "UID", "BODY[1.2.HEADER]",
   "BODY[HEADER.FIELDS (a b)] 7", "(FLAGS RFC822.SIZE)", "12 FAST", "BODY.PEEK[]<1.2> (x)",
   "FAST", "FULL x", "fast", "XYZ x", "BODY", "BODYSTRUCTURE x", "FLAGS", "INTERNALDATE",
   "RFC822", "RFC822.HEADER", "RFC822.SIZE x", "RFC822.TEXT", "ENVELOPE"}

\* the sections of the generated body-section tokens
fetchSections == {"", "TEXT", "HEADER", "1", "1.TEXT", "HEADER.FIELDS (DATE FROM)"}

\* dotted part paths, one to three numbers deep
fetchPaths == {"1", "12", "1.2", "12.1", "1.2.3", "3.1.12"}

\* the section of a part path and a mode
WithMode(path, m) == IF m = "" THEN path ELSE path \o "." \o m

\* BODY[section] with or without .PEEK and a partial range
BodyToken(peek, sec, partial) ==
  "BODY" \o (IF peek THEN ".PEEK" ELSE "") \o "[" \o sec \o "]"
  \o (IF partial THEN "<0.5>" ELSE "")

\* a body-section token by itself, and as the k-th element of a list
fetchInputs ==
  {[form |-> "text", text |-> s, peek |-> FALSE, sec |-> "", partial |-> FALSE, k |-> 0, mode |-> ""] :
     s \in fetchTexts}
  \cup {[form |-> "top", text |-> BodyToken(pk, sec, pt) \o d, peek |-> pk, sec |-> sec,
          partial |-> pt, k |-> 1, mode |-> ""] :
        pk \in BOOLEAN, sec \in fetchSections, pt \in BOOLEAN, d \in {"", " x"}}
  \cup {[form |-> "list", text |-> "(" \o BodyToken(pk, sec, pt) \o ")", peek |-> pk,
          sec |-> sec, partial |-> pt, k |-> 1, mode |-> ""] :
        pk \in BOOLEAN, sec \in fetchSections, pt \in BOOLEAN}
  \cup {[form |-> "list", text |-> "(UID " \o BodyToken(pk, sec, pt) \o " FLAGS)", peek |-> pk,
          sec |-> sec, partial |-> pt, k |-> 2, mode |-> ""] :
        pk \in BOOLEAN, sec \in fetchSections, pt \in BOOLEAN}
  \cup {[form |-> "path", text |-> BodyToken(FALSE, WithMode(path, m), FALSE), peek |-> FALSE,
          sec |-> path, partial |-> FALSE, k |-> 1, mode |-> m] :
        path \in fetchPaths, m \in {"", "TEXT", "HEADER"}}
  \cup {[form |-> "dot", text |-> BodyToken(FALSE, "." \o sec, FALSE), peek |-> FALSE,
          sec |-> "." \o sec, partial |-> FALSE, k |-> 1, mode |-> ""] :
        sec \in {"1", "TEXT", "1.2"}}
  \cup {[form |-> "fields", text |-> BodyToken(pk, m \o " (a b)", FALSE) \o d, peek |-> pk,
          sec |-> m \o " (a b)", partial |-> FALSE, k |-> 1, mode |-> m] :
        pk \in BOOLEAN, m \in {"HEADER.FIELDS", "HEADER.FIELDS.NOT"}, d \in {"", " x"}}
  \cup {[form |-> "empty", text |-> BodyToken(pk, m \o l, FALSE), peek |-> pk,
          sec |-> m \o l, partial |-> FALSE, k |-> 1, mode |-> m] :
        pk \in BOOLEAN, m \in {"HEADER.FIELDS", "HEADER.FIELDS.NOT"}, l \in {" ()", "()", " ( )"}}

InitFetch == \E s \in fetchInputs : Start(s, NewBuffer(s.text), ErrEOF)

NextFetch ==
  \/ DoReadAtom
  \/ DoReadInt
  \/ DoReadSpace
  \/ DoReadAtomList
  \/ DoReadFetchAttribute
  \/ DoReadFetchAttributes
  \/ DoDiscardLine

SpecFetch == InitFetch /\ [][NextFetch]_vars

(***************************************************************************)
(* SpecSeq: sequence sets read from a line, then enumerated                *)
(***************************************************************************)
seqEndpoints == {"*"} \cup {Itoa(n) : n \in 1..MaxSeq}

\* a:b together with b:a, for every pair of endpoints
seqMirrors ==
  {[form |-> "mirror", a |-> a, b |-> b, text |-> a \o ":" \o b \o "," \o b \o ":" \o a] :
     a \in seqEndpoints, b \in seqEndpoints}

seqPool == {"2:4", "3", "*", "4:2", "7:9", "1:*"}

\* single endpoints and ranges, sets of two and three ranges that overlap,
\* and sets that are not well formed
seqTexts ==
  seqEndpoints \cup {a \o ":" \o b : a \in seqEndpoints, b \in seqEndpoints}
  \cup {r1 \o "," \o r2 : r1 \in seqPool, r2 \in seqPool}
  \cup {r1 \o "," \o r2 \o "," \o r3 : r1 \in seqPool, r2 \in seqPool, r3 \in seqPool}
  \cup {"0", "2:0", "2,", "x", "3:", "0:5", "1,0", "2:4,0:1,3", "5:2,0", "*:0", "3,2:0,1"}

seqInputs == seqMirrors \cup {[form |-> "set", a |-> "", b |-> "", text |-> s] : s \in seqTexts}

InitSeq == \E c \in seqInputs : Start(c, NewBuffer(c.text), ErrEOF)

NextSeq ==
  \/ DoReadSequenceSet
  \/ DoForeach
  \/ DoEachRange

SpecSeq == InitSeq /\ [][NextSeq]_vars

(***************************************************************************)
(* SpecSearch: SEARCH commands, from the space before the first key on     *)
(***************************************************************************)
\* Search keys, one for every kind of payload
keyTexts ==
  <<"FLAGGED", "SINCE 1-Feb-1994", "NOT FROM \"Smith\"", "TEXT XXXXXX", "LARGER 5", "2:4", "ALL">>

\* One key for every keyword with a field and an operator, the flag
\* keywords with their UN- forms, and keys that are no keyword
leafKeys ==
  <<[word |-> "BEFORE", payload |-> " 1-Feb-1994"], [word |-> "ON", payload |-> " 1-Feb-1994"],
    [word |-> "SINCE", payload |-> " 1-Feb-1994"], [word |-> "SENTBEFORE", payload |-> " 1-Feb-1994"],
    [word |-> "SENTON", payload |-> " 1-Feb-1994"], [word |-> "SENTSINCE", payload |-> " 1-Feb-1994"],
    [word |-> "LARGER", payload |-> " 5"], [word |-> "SMALLER", payload |-> " 5"],
    [word |-> "FROM", payload |-> " Smith"], [word |-> "TO", payload |-> " \"Smith\""],
    [word |-> "CC", payload |-> " Smith"], [word |-> "BCC", payload |-> " \"Smith\""],
    [word |-> "SUBJECT", payload |-> " Smith"], [word |-> "BODY", payload |-> " \"Smith\""],
    [word |-> "TEXT", payload |-> " Smith"], [word |-> "HEADER", payload |-> " X-Id \"v\""],
    [word |-> "UID", payload |-> " 2:4"],
    [word |-> "ANSWERED", payload |-> ""], [word |-> "UNANSWERED", payload |-> ""],
    [word |-> "DELETED", payload |-> ""], [word |-> "UNDELETED", payload |-> ""],
    [word |-> "FLAGGED", payload |-> ""], [word |-> "UNFLAGGED", payload |-> ""],
    [word |-> "SEEN", payload |-> ""], [word |-> "UNSEEN", payload |-> ""],
    [word |-> "DRAFT", payload |-> ""], [word |-> "UNDRAFT", payload |-> ""],
    [word |-> "KEYWORD", payload |-> " work"], [word |-> "UNKEYWORD", payload |-> " work"],
    [word |-> "2:4", payload |-> ""], [word |-> "*", payload |-> ",3"],
    [word |-> "xyz", payload |-> ""], [word |-> "0", payload |-> ""], [word |-> "2:", payload |-> ""]>>

\* a keyword in upper case, in lower case, or with its first letter only in
\* upper case
Spell(word, sp) ==
  CASE sp = "upper" -> ToUpper(word)
    [] sp = "lower" -> ToLower(word)
    [] OTHER -> ToUpper(SubSeq(word, 1, 1)) \o ToLower(Tail(word))

RECURSIVE JoinKeys(_)
JoinKeys(ks) ==
  IF Len(ks) = 1 THEN keyTexts[ks[1]] ELSE keyTexts[ks[1]] \o " " \o JoinKeys(Tail(ks))

KeySeqs(n) == UNION {[1..k -> 1..Len(keyTexts)] : k \in 1..n}

\* NOT, OR and groups inside one another, complete and cut short
nestedTexts ==
  {" OR (ALL) FLAGGED", " NOT (ALL)", " OR (FLAGGED 2:4) ALL", " (OR ALL ALL)", " NOT NOT ALL",
   " OR OR ALL ALL ALL", " (ALL (ALL))", " NOT", " OR ALL", " (FLAGGED", " OR NOT ALL (ALL 2:4)",
   " NOT OR SEEN (NEW 3)", " (NOT ALL OR 1 (2 3)) 4", " OR ALL NOT", " ((ALL) 0)", " ()"}

\* the keys of a query with or without CHARSET, the two keys of an OR, the
\* keys of a parenthesized group, and nested keys
searchInputs ==
  {[form |-> "query", charset |-> cs, keys |-> ks] : cs \in {"", "UTF-8"}, ks \in KeySeqs(MaxKeys)}
  \cup {[form |-> "query", charset |-> "", keys |-> <<1, 2, 3>>]}
  \cup {[form |-> "or", charset |-> "", keys |-> ks] : ks \in [1..2 -> 1..Len(keyTexts)]}
  \cup {[form |-> "group", charset |-> "", keys |-> ks] : ks \in KeySeqs(MaxGroup)}
  \cup {[form |-> "key", charset |-> "", keys |-> <<i>>, spell |-> sp] :
        i \in 1..Len(leafKeys), sp \in {"upper", "lower", "title"}}
  \cup {[form |-> "nested", charset |-> "", keys |-> <<>>, text |-> s] : s \in nestedTexts}

SearchText(c) ==
  CASE c.form = "query" ->
         " " \o (IF c.charset = "" THEN "" ELSE "CHARSET " \o c.charset \o " ") \o JoinKeys(c.keys)
    [] c.form = "or" -> " OR " \o JoinKeys(c.keys)
    [] c.form = "group" -> " (" \o JoinKeys(c.keys) \o ")"
    [] c.form = "nested" -> c.text
    [] c.form = "key" -> " " \o Spell(leafKeys[c.keys[1]].word, c.spell) \o leafKeys[c.keys[1]].payload

InitSearch == \E c \in searchInputs : Start(c, NewBuffer(SearchText(c)), ErrEOF)

NextSearch ==
  \/ DoReadSpace
  \/ DoReadSearch
  \/ DoReadSearchKey
  \/ DoDiscardLine

SpecSearch == InitSearch /\ [][NextSearch]_vars

(***************************************************************************)
(* SpecAtom: atoms and flags in every mix of upper and lower case          *)
(***************************************************************************)
atomBytes == {"s", "S", "e", "N", "1", "*"}

RECURSIVE atomBodies(_)
atomBodies(n) ==
  IF n = 0 THEN {""}
  ELSE atomBodies(n - 1) \cup {b \o c : b \in atomBodies(n - 1), c \in atomBytes}

atomInputs ==
  {bs \o b \o d : bs \in {"", "\\"}, b \in atomBodies(MaxAtom), d \in {"", " x", ")"}}
  \cup {"\\seen", "\\SEEN", "\\Seen x", "fast", "FAST", "Fast x", "\\1sS"}

InitAtom == \E s \in atomInputs : Start(s, NewBuffer(s), ErrEOF)

NextAtom ==
  \/ DoReadAtom
  \/ DoReadSpace
  \/ DoReadEOL

SpecAtom == InitAtom /\ [][NextAtom]_vars

(***************************************************************************)
(* SpecRequest: a connection reading request lines                         *)
(***************************************************************************)
\* client lines: well formed, and malformed in the tag, the space and the
\* command
requestLines ==
  <<"a1 NOOP", "a2 login x y", "A3 Fetch 1:* FAST", "a1 b)", "(a NOOP", "a1", "a1  NOOP", "">>

RECURSIVE JoinLines(_)
JoinLines(ls) ==
  IF Len(ls) = 0 THEN "" ELSE requestLines[ls[1]] \o crlf \o JoinLines(Tail(ls))

requestInputs == UNION {[1..n -> 1..Len(requestLines)] : n \in 1..MaxLines}

InitRequest == \E ls \in requestInputs : Start(ls, JoinLines(ls), ErrEOF)

NextRequest ==
  \/ DoReadRequest
  \/ DoReadSpace
  \/ DoReadAtom
  \/ DoReadEOL
  \/ DoDiscardLine

SpecRequest == InitRequest /\ [][NextRequest]_vars

(***************************************************************************)
(* SpecList: lists and sections over two lines, the first of which may     *)
(* fail inside a list or a section                                         *)
(***************************************************************************)
\* first lines: lists and sections, closed, left open, and malformed inside
listFirst ==
  {"(a b", "(a b) c", "BODY[1 x", "BODY[TEXT] c", "(\"q\" b x", "a b", "(a  b)", "()",
   "(a b )", "(a b( c)", "(a \"q\") c", "(b a)", "(\"q\" \"\")", "(a]"}

\* second lines: an atom or a quoted string before each kind of byte
listSecond ==
  {"x) y", "x] y", "\"q\") y", "\"q\"] y", "x y", "\"q\" y", "x( y", "\"q\"x y", "(x y) z", "xy"}

listInputs == {[first |-> f, second |-> s] : f \in listFirst, s \in listSecond}

InitList == \E c \in listInputs : Start(c, NewBuffer(c.first \o crlf \o c.second), ErrEOF)

NextList ==
  \/ DoReadAtom
  \/ DoReadQuotedString
  \/ DoReadSpace
  \/ DoReadAtomList
  \/ DoReadStringList
  \/ DoReadListStart
  \/ DoReadListEnd
  \/ DoReadFetchAttribute
  \/ DoDiscardLine

SpecList == InitList /\ [][NextList]_vars

(***************************************************************************)
(* SpecLoops: the operations that loop or recurse, over lines that close,  *)
(* nest and break off their lists, groups, sets and section paths          *)
(***************************************************************************)
loopTexts ==
  nestedTexts
  \cup {"(a b) c", "(a b", "(a  b)", "()", "(\"q\" b x", "(", "((a))", "(a b c d e f g h)",
        "2:4,0:1,3", "1,2,3,4,5,6,7,8", "1,", "*:*,*", ",",
        "(UID BODY.PEEK[1]<0.5>) x", "(FLAGS RFC822.SIZE", "(FLAGS  UID)", "(UID UID UID UID UID)",
        "BODY[1.2.3]", "BODY[1.2.TEXT]", "BODY[1..2]", "BODY[.1]", "BODY[1.", "BODY[1.2.3.4.",
        "BODY[12.1.HEADER.FIELDS (a b)]", "(BODY[1.2] BODY[1.TEXT] UID)",
        " ((((ALL))))", " ((((ALL", " NOT NOT NOT 1", " OR OR 1 2 3", " 1 2 3 4",
        " (1 2 3)", " (1 (2 (3", " OR (ALL OR 2 (NOT", " ALL SEEN ALL SEEN ALL SEEN",
        " (ALL SEEN ALL SEEN ALL)", " NOT NOT NOT NOT NOT ALL", " OR OR OR ALL SEEN ALL SEEN",
        " SUBJECT {3}" \o crlf \o "a b (ALL 2)"}

loopInputs == {[text |-> s] : s \in loopTexts}

InitLoops == \E c \in loopInputs : Start(c, NewBuffer(c.text), ErrEOF)

NextLoops ==
  \/ DoReadSpace
  \/ DoReadSearch
  \/ DoReadSearchKey
  \/ DoReadSequenceSet
  \/ DoReadAtomList
  \/ DoReadStringList
  \/ DoReadFetchAttribute
  \/ DoReadFetchAttributes
  \/ DoDiscardLine

SpecLoops == InitLoops /\ [][NextLoops]_vars

(***************************************************************************)
(* SpecMarshal: body attributes with partial ranges, marshalled            *)
(***************************************************************************)
\* the greatest endpoint of a partial range
MaxPartial == 4

\* Messages as the mail library hands them over: the whole text, the body
\* text, the header fields with their lines, and the body parts by path
marshalMsgs ==
  {[RFC822 |-> "", Text |-> "", Fields |-> <<>>, Parts |-> [x \in {} |-> x]],
   [RFC822 |-> "To: a\n\nhi", Text |-> "hi",
    Fields |-> <<[name |-> "To", line |-> "To: a\n"]>>,
    Parts |-> [x \in {"1"} |-> [Text |-> "p", Fields |-> <<[name |-> "A", line |-> "A: 1\n"]>>]]]}

marshalSections == {"", "TEXT", "HEADER", "HEADER.FIELDS (to)", "1", "1.TEXT", "2"}

marshalPartials ==
  {""} \cup {"<" \o Itoa(a) \o "." \o Itoa(b) \o ">" : a \in 0..MaxPartial, b \in 0..MaxPartial}

marshalInputs ==
  {[text |-> "BODY[" \o s \o "]" \o pt, msg |-> m] :
     s \in marshalSections, pt \in marshalPartials, m \in marshalMsgs}

InitMarshal == \E c \in marshalInputs : Start(c, NewBuffer(c.text), ErrEOF)

NextMarshal ==
  \/ DoReadFetchAttribute
  \/ DoMarshal
  \/ DoDiscardLine

SpecMarshal == InitMarshal /\ [][NextMarshal]_vars

(***************************************************************************)
(* SpecLong: lines about as long as the reader's buffer                    *)
(***************************************************************************)
maxTokenSize == 8000

\* n copies of s
RECURSIVE Repeat(_, _)
Repeat(s, n) ==
  IF n = 0 THEN ""
  ELSE IF n % 2 = 1 THEN s \o Repeat(s \o s, n \div 2)
  ELSE Repeat(s \o s, n \div 2)

longHeads == {"", "a", "a b", "ab c", "x y z", "A1 NOOP", "\\Seen"}

\* the lengths of the first line, its CRLF counted
longSizes == {maxTokenSize - 1, maxTokenSize, maxTokenSize + 1, 2 * maxTokenSize}

longInputs ==
  {[head |-> h, size |-> n, next |-> s] :
     h \in longHeads, n \in longSizes, s \in {"", "b c" \o crlf}}

\* a line of c.size bytes: the head, a space and a run of `(`
LongLine(c) == c.head \o " " \o Repeat("(", c.size - Len(c.head) - 3) \o crlf

InitLong == \E c \in longInputs : Start(c, LongLine(c) \o c.next, ErrEOF)

NextLong ==
  \/ DoReadAtom
  \/ DoReadSpace
  \/ DoDiscardLine

SpecLong == InitLong /\ [][NextLong]_vars

(***************************************************************************)
(* Properties                                                              *)
(***************************************************************************)
\* What an operation finds at the cursor: the rest of the loaded line or,
\* at end of line, the next line of the stream; and the stream after it.
FirstLine(s) == IF IndexLF(s, 1) > 0 THEN SubSeq(s, 1, IndexLF(s, 1)) ELSE s

Pending(q) == IF q.isEOL THEN FirstLine(q.r) ELSE PTail(q)

PendingPos(q) == IF q.isEOL THEN 0 ELSE q.pos

AfterPending(q) == IF q.isEOL THEN From(q.r, Len(FirstLine(q.r))) ELSE q.r

\* the reads and writes of the last operation
NewIO == SubSeq(p.io, Len(arg.p.io) + 1, Len(p.io))

ReadOps ==
  {"ReadAtom", "ReadInt", "ReadQuotedString", "ReadString", "ReadAstring", "ReadLiteral",
   "ReadSpace", "ReadAtomList", "ReadFetchAttribute", "ReadFetchAttributes"}

ZeroOf(o) ==
  CASE o = "ReadInt" -> 0
    [] o \in {"ReadAtomList", "ReadFetchAttributes"} -> <<>>
    [] o = "ReadFetchAttribute" -> [kind |-> "nil"]
    [] OTHER -> ""

\* C1: once the error slot is non-empty, every read operation returns its
\* zero value and consumes nothing: the cursor offset, the line and the
\* stream are as they were before the call.
C1_StickyError ==
  (op \in ReadOps /\ arg.p.err # Nil) =>
    /\ ret = ZeroOf(op)
    /\ p.pos = arg.p.pos
    /\ p.line = arg.p.line
    /\ p.r = arg.p.r

\* C1: ReadFetchAttribute, called with an error pending, has moved the
\* cursor and returned an attribute.
C1_Witness ==
  /\ op = "ReadFetchAttribute"
  /\ arg.p.err # Nil
  /\ p.pos > arg.p.pos
  /\ ret.kind = "body"

\* the text is a literal prefix of n bytes, synchronizing or not
IsLiteralPrefix(text, n, sync) ==
  text = "{" \o Itoa(n) \o (IF sync THEN "" ELSE "+") \o "}" \o crlf

IsPromptLine(e) ==
  /\ e.op = "write"
  /\ Len(e.data) >= 4
  /\ SubSeq(e.data, 1, 2) = "+ "
  /\ IndexLF(e.data, 1) = Len(e.data)
  /\ SubSeq(e.data, Len(e.data) - 1, Len(e.data)) = crlf

\* C2: a synchronizing literal {n} makes ReadLiteral write exactly one
\* continuation line, "+ " text CRLF, before it asks the stream for any
\* literal byte; a non-synchronizing literal {n+}, or a prefix that does not
\* parse, writes nothing.
C2_ContinuationPrompt ==
  op = "ReadLiteral" =>
    IF Valid(arg.p) /\ \E n \in 0..MaxLiteral : IsLiteralPrefix(Pending(arg.p), n, TRUE)
    THEN /\ Len(NewIO) >= 1
         /\ IsPromptLine(NewIO[1])
         /\ \A k \in 2..Len(NewIO) : NewIO[k].op = "read"
    ELSE \A k \in 1..Len(NewIO) : NewIO[k].op # "write"

\* C2: a synchronizing literal was read: one prompt, then the read.
C2_Witness ==
  /\ op = "ReadLiteral"
  /\ Valid(arg.p)
  /\ IsLiteralPrefix(Pending(arg.p), 3, TRUE)
  /\ Len(NewIO) = 2
  /\ NewIO[1].op = "write"
  /\ NewIO[2].op = "read"

\* the operations that load one line and nothing else
LineOps == {"ReadAtom", "ReadQuotedString", "ReadSpace"}

\* C3: after a literal prefix of n bytes, ReadLiteral returns exactly the
\* next n bytes of the stream after the prefix's CRLF, whatever they are, and
\* leaves the parser at end of line with the stream right after them; the
\* next line is read from where the stream stands.
C3_LiteralBytes ==
  /\ (op = "ReadLiteral" /\ Valid(arg.p)) =>
       \A n \in 0..MaxLiteral, sync \in BOOLEAN :
         (IsLiteralPrefix(Pending(arg.p), n, sync) /\ Len(AfterPending(arg.p)) >= n) =>
           /\ Valid(p)
           /\ ret = Slice(AfterPending(arg.p), 0, n)
           /\ p.isEOL
           /\ p.r = From(AfterPending(arg.p), n)
  /\ (op \in LineOps /\ Valid(arg.p) /\ arg.p.isEOL) =>
       /\ p.line = FirstLine(arg.p.r)
       /\ p.line \o p.r = arg.p.r

\* C3: a literal of three bytes holding a CRLF was returned whole.
C3_Witness ==
  /\ op = "ReadLiteral"
  /\ Valid(arg.p)
  /\ IsLiteralPrefix(Pending(arg.p), 3, FALSE)
  /\ ret = crlf \o "b"
  /\ Valid(p)
  /\ p.isEOL
  /\ p.r = " x" \o crlf

\* the bytes a search key is given as, and the term each stands for
keyTerms ==
  <<[k |-> "Flag", Flag |-> "\\Flagged", Present |-> TRUE],
    [k |-> "Date", Op |-> "OpGTE", Field |-> "InternalDate", Date |-> [y |-> 1994, m |-> 2, d |-> 1]],
    [k |-> "Unary", Op |-> "OpNot",
     Term |-> [k |-> "String", Op |-> "OpContains", Field |-> "From", String |-> "Smith"]],
    [k |-> "String", Op |-> "OpContains", Field |-> "Text", String |-> "XXXXXX"],
    [k |-> "Int", Op |-> "OpGTE", Field |-> "Size", Int |-> 5],
    [k |-> "Set", Op |-> "OpIn", Field |-> "MSN", Set |-> << <<2, 4>> >>],
    [k |-> "All"]>>

TermsOf(ks) == [i \in 1..Len(ks) |-> keyTerms[ks[i]]]

\* ReadSearch, ReadSearchKey after the leading space: the first call on the
\* stream of this input
FirstSearch ==
  op = "ReadSearch" /\ arg.p = NewParser(NewBuffer(SearchText(input)), ErrEOF)

FirstSearchKey ==
  /\ op = "ReadSearchKey"
  /\ Valid(arg.p)
  /\ ~arg.p.isEOL
  /\ arg.p.pos = 1
  /\ arg.p.line = NewBuffer(SearchText(input))

\* C4: ReadSearch returns the charset "us-ascii", or the name given after
\* CHARSET, and the query: the term of a single key, or the AND of the keys'
\* terms in the order given. " FLAGGED SINCE 1-Feb-1994 NOT FROM "Smith""
\* is the AND of flag \Flagged present, internal date >= 1994-02-01 and
\* NOT(From contains "Smith"); " CHARSET UTF-8 TEXT XXXXXX" is "UTF-8" with
\* Text contains "XXXXXX".
C4_ReadSearch ==
  (FirstSearch /\ input.form = "query") =>
    /\ Valid(p)
    /\ ret.charset = (IF input.charset = "" THEN "us-ascii" ELSE input.charset)
    /\ ret.query = (IF Len(input.keys) = 1 THEN keyTerms[input.keys[1]]
                    ELSE [k |-> "Boolean", Op |-> "OpAnd", Terms |-> TermsOf(input.keys)])

\* C4: the query of three keys has been read.
C4_Witness ==
  /\ FirstSearch
  /\ arg.p.r = " FLAGGED SINCE 1-Feb-1994 NOT FROM \"Smith\"" \o crlf
  /\ ret.charset = "us-ascii"
  /\ ret.query.k = "Boolean"
  /\ Len(ret.query.Terms) = 3
  /\ ret.query.Terms[3].Term.String = "Smith"

\* C5: OR with ALL as one operand is the term of the other operand; with no
\* ALL operand it is the OR of the two terms, in order.
C5_OrAll ==
  (FirstSearchKey /\ input.form = "or") =>
    /\ Valid(p)
    /\ ret = (IF input.keys[1] = Len(keyTexts) THEN keyTerms[input.keys[2]]
              ELSE IF input.keys[2] = Len(keyTexts) THEN keyTerms[input.keys[1]]
              ELSE [k |-> "Boolean", Op |-> "OpOr", Terms |-> TermsOf(input.keys)])

\* C5: "OR ALL TEXT XXXXXX" has been read as the term of TEXT.
C5_Witness ==
  /\ FirstSearchKey
  /\ input.form = "or"
  /\ input.keys = <<7, 4>>
  /\ ret.k = "String"
  /\ ret.String = "XXXXXX"

\* C6: a parenthesized group of n keys parses without error whatever the
\* payload of its keys: the term itself for n = 1, the AND of the terms in
\* order for n >= 2.
C6_Group ==
  (FirstSearchKey /\ input.form = "group") =>
    /\ Valid(p)
    /\ ret = (IF Len(input.keys) = 1 THEN keyTerms[input.keys[1]]
              ELSE [k |-> "Boolean", Op |-> "OpAnd", Terms |-> TermsOf(input.keys)])

\* C6: "(TEXT XXXXXX)" has been read: the atom before the closing
\* parenthesis is refused.
C6_Witness ==
  /\ FirstSearchKey
  /\ input.form = "group"
  /\ input.keys = <<4>>
  /\ ~Valid(p)
  /\ ret.k = "Boolean"

\* what a stored endpoint resolves to under max
Resolved(e, max) == IF e = Star \/ e > max THEN max ELSE e

Span(lo, hi) == [j \in 1..(hi - lo + 1) |-> lo + j - 1]

Least(a, b) == IF a <= b THEN a ELSE b

Greatest(a, b) == IF a >= b THEN a ELSE b

RECURSIVE ResolvedCalls(_, _)
ResolvedCalls(set, max) ==
  IF Len(set) = 0 THEN <<>>
  ELSE Span(Least(Resolved(set[1][1], max), Resolved(set[1][2], max)),
            Greatest(Resolved(set[1][1], max), Resolved(set[1][2], max)))
       \o ResolvedCalls(Tail(set), max)

\* C7: Foreach resolves a `*` endpoint to max and clamps a literal endpoint
\* above max down to max, and enumerates each range from its resolved
\* minimum to its resolved maximum.
C7_ForeachResolves ==
  (op = "Foreach" /\ arg.failAt = 0) => ret.calls = ResolvedCalls(arg.set, arg.max)

\* C7: 7:9 has been enumerated under max = 5: nothing was called.
C7_Witness ==
  /\ op = "Foreach"
  /\ arg.set = << <<7, 9>> >>
  /\ arg.max = 5
  /\ arg.failAt = 0
  /\ ret.calls = <<>>

\* C8: the ranges read from a:b and from b:a have the same Min and the same
\* Max, and Foreach enumerates the same values for both under every max.
C8_MirrorRanges ==
  (op = "EachRange" /\ input.form = "mirror") =>
    /\ Len(ret) = 2
    /\ ret[1].min = ret[2].min
    /\ ret[1].max = ret[2].max
    /\ ret[1].calls = ret[2].calls

\* C8: *:3 and 3:* have been enumerated under max = 5.
C8_Witness ==
  /\ op = "EachRange"
  /\ input.form = "mirror"
  /\ input.a = "*"
  /\ input.b = "3"
  /\ arg.max = 5
  /\ ret[1].calls = <<3, 4, 5>>
  /\ ret[2].min = 3

\* what Foreach enumerates over each range by itself, range after range
RECURSIVE RangeByRange(_, _)
RangeByRange(set, max) ==
  IF Len(set) = 0 THEN <<>>
  ELSE Foreach(NewSequenceSetWithRange(set[1]), max, 0).calls \o RangeByRange(Tail(set), max)

Ascending(calls) == \A j \in 1..(Len(calls) - 1) : calls[j + 1] = calls[j] + 1

\* C9: Foreach calls the callback on the values of each range in ascending
\* order, range after range in stored order, values shared by ranges called
\* again; at the first error it returns that error and calls nothing more;
\* with no error it returns nil after the last range.
C9_ForeachOrder ==
  op = "Foreach" =>
    /\ \A k \in 1..Len(arg.set) :
         Ascending(Foreach(NewSequenceSetWithRange(arg.set[k]), arg.max, 0).calls)
    /\ IF arg.failAt \in 1..Len(RangeByRange(arg.set, arg.max))
       THEN /\ ret.calls = SubSeq(RangeByRange(arg.set, arg.max), 1, arg.failAt)
            /\ ret.err = CallbackErr
       ELSE /\ ret.calls = RangeByRange(arg.set, arg.max)
            /\ ret.err = Nil

\* C9: over 2:4,3,4:2 the second call failed: 2 and 3 were called, 4 and the
\* later ranges were not.
C9_Witness ==
  /\ op = "Foreach"
  /\ arg.set = << <<2, 4>>, <<3, 3>>, <<4, 2>> >>
  /\ arg.failAt = 2
  /\ ret.calls = <<2, 3>>
  /\ ret.err = CallbackErr

\* Reading a quoted string byte by byte from index i of s, acc the bytes
\* decoded so far: closed at end, open, or stopped at a bad escape.
RECURSIVE Unquote(_, _, _)
Unquote(s, i, acc) ==
  IF i >= Len(s) THEN [kind |-> "open", str |-> acc, end |-> i]
  ELSE IF Byte(s, i) = "\"" THEN [kind |-> "closed", str |-> acc, end |-> i + 1]
  ELSE IF Byte(s, i) # "\\" THEN Unquote(s, i + 1, acc \o Byte(s, i))
  ELSE IF i + 1 >= Len(s) THEN [kind |-> "open", str |-> acc, end |-> i]
  ELSE IF Byte(s, i + 1) \in {"\\", "\""} THEN Unquote(s, i + 2, acc \o Byte(s, i + 1))
  ELSE [kind |-> "badescape", str |-> acc, end |-> i]

Unquoted(q) == Unquote(Pending(q), 1, "")

\* C10: ReadQuotedString returns the bytes between the quotes with \\ read
\* as \ and \" as ", the cursor just past the closing quote; an escape of any
\* other byte is a malformed-token error, with "" returned and the cursor
\* where it was; a token that does not start with a quote is a type-mismatch
\* error.
C10_QuotedString ==
  (op = "ReadQuotedString" /\ Valid(arg.p)) =>
    IF Pending(arg.p) = "" \/ Byte(Pending(arg.p), 0) # "\""
    THEN p.err = TypeMismatchError("quoted string") /\ ret = ""
    ELSE /\ (/\ Unquoted(arg.p).kind = "closed"
             /\ Unquoted(arg.p).end < Len(Pending(arg.p))
             /\ Byte(Pending(arg.p), Unquoted(arg.p).end) \in {" ", "\r"}) =>
               /\ Valid(p)
               /\ ret = Unquoted(arg.p).str
               /\ p.pos = PendingPos(arg.p) + Unquoted(arg.p).end
         /\ Unquoted(arg.p).kind = "badescape" =>
               /\ p.err = InvalidTokenError("quoted string")
               /\ ret = ""
               /\ p.pos = PendingPos(arg.p)

\* C10: "\\\"" has been read as the two bytes \ and ".
C10_Witness ==
  /\ op = "ReadQuotedString"
  /\ Valid(arg.p)
  /\ Pending(arg.p) = "\"\\\\\\\"\" x" \o crlf
  /\ Valid(p)
  /\ ret = "\\\""
  /\ p.pos = 6

\* the bytes the last operation has consumed
Consumed == Slice(Pending(arg.p), 0, p.pos - PendingPos(arg.p))

\* ReadAtom has returned an atom, which began with a backslash or did not
AtomRead(flag) ==
  /\ op = "ReadAtom"
  /\ Valid(arg.p)
  /\ Valid(p)
  /\ (Byte(Pending(arg.p), 0) = "\\") = flag

\* s with the byte after its first in upper case and every later byte in
\* lower case
RECURSIVE TitleFrom(_, _)
TitleFrom(s, i) ==
  IF i > Len(s) THEN ""
  ELSE (IF i = 2 THEN ToUpperByte(SubSeq(s, i, i))
        ELSE IF i > 2 THEN ToLowerByte(SubSeq(s, i, i))
        ELSE SubSeq(s, i, i)) \o TitleFrom(s, i + 1)

\* C11: ReadAtom returns an atom that begins with a backslash in title case,
\* the letter after the backslash upper case and every later letter lower
\* case, whatever the case of the input; \* comes back unchanged; and
\* normalizing what was returned changes nothing.
C11_FlagTitleCase ==
  AtomRead(TRUE) =>
    /\ ret = TitleFrom(Consumed, 1)
    /\ ret = TitleFrom(ToLower(Consumed), 1)
    /\ ret = TitleFrom(ToUpper(Consumed), 1)
    /\ (Consumed = "\\*" => ret = "\\*")
    /\ normalize(ret) = ret

\* C11: \SEEN has been read as \Seen.
C11_Witness ==
  /\ AtomRead(TRUE)
  /\ Consumed = "\\SEEN"
  /\ ret = "\\Seen"

\* the bytes of s before its first space
RECURSIVE FirstWord(_)
FirstWord(s) ==
  IF s = "" \/ Head(s) = " " THEN "" ELSE SubSeq(s, 1, 1) \o FirstWord(Tail(s))

\* the first operation on the parser of a FETCH input is op
FirstFetch(o) == op = o /\ arg.p = NewParser(NewBuffer(input.text), ErrEOF)

\* w is an atom: not empty, and none of its bytes is an atom-special
IsAtomWord(w) == w # "" /\ \A i \in 1..Len(w) : ~atomSpecials(SubSeq(w, i, i))

Simple(name) == [kind |-> "basic", name |-> name]

SimpleNames ==
  {"FLAGS", "INTERNALDATE", "RFC822", "RFC822.HEADER", "RFC822.SIZE", "RFC822.TEXT",
   "ENVELOPE", "UID"}

\* the attribute a simple attribute's name stands for
AttributeOf(w) ==
  CASE w = "BODY" -> [kind |-> "bodystructure", ext |-> FALSE]
    [] w = "BODYSTRUCTURE" -> [kind |-> "bodystructure", ext |-> TRUE]
    [] OTHER -> Simple(w)

\* C12: ReadFetchAttributes on an atom: FAST, ALL and FULL give their fixed
\* lists in order and without error, the name of one simple attribute gives
\* the list of that attribute, and any other atom gives the unknown-field
\* error and no attributes.
C12_Macros ==
  (FirstFetch("ReadFetchAttributes") /\ IsAtomWord(FirstWord(input.text))) =>
    CASE FirstWord(input.text) = "FAST" ->
           /\ Valid(p)
           /\ ret = <<Simple("FLAGS"), Simple("INTERNALDATE"), Simple("RFC822.SIZE")>>
      [] FirstWord(input.text) = "ALL" ->
           /\ Valid(p)
           /\ ret = <<Simple("FLAGS"), Simple("INTERNALDATE"), Simple("RFC822.SIZE"),
                      Simple("ENVELOPE")>>
      [] FirstWord(input.text) = "FULL" ->
           /\ Valid(p)
           /\ ret = <<Simple("FLAGS"), Simple("INTERNALDATE"), Simple("RFC822.SIZE"),
                      Simple("ENVELOPE"), AttributeOf("BODY")>>
      [] FirstWord(input.text) \in SimpleNames \cup {"BODY", "BODYSTRUCTURE"} ->
           /\ Valid(p)
           /\ ret = <<AttributeOf(FirstWord(input.text))>>
      [] OTHER ->
           /\ p.err = UnknownFieldError
           /\ ret = <<>>

\* C12: FULL has been expanded to its five attributes.
C12_Witness ==
  /\ FirstFetch("ReadFetchAttributes")
  /\ FirstWord(input.text) = "FULL"
  /\ Valid(p)
  /\ Len(ret) = 5
  /\ ret[5] = AttributeOf("BODY")

\* the body-section token of the input, as the list or the attribute returned
BodyAttr == IF op = "ReadFetchAttribute" THEN ret ELSE ret[input.k]

\* C13: a body-section token, at top level and as an element of a fetch
\* list, is parsed by the body grammar after the atom read has failed at
\* its "[" without consuming anything: no error is left, the attribute's
\* peek flag is set exactly when .PEEK is there and it has a partial range
\* exactly when <offset.length> follows; BODY[HEADER.FIELDS (DATE FROM)]
\* gives part "", mode HEADER.FIELDS and the headers DATE and FROM, the list
\* depth back at 0 and the in-section flag false. (Sections with a deeper
\* part path, and HEADER.FIELDS.NOT, are the matter of C17 and C18.)
C13_BodySection ==
  /\ (FirstFetch("ReadAtom") /\ input.form = "top") =>
       /\ p.err = InvalidTokenError("atom")
       /\ ret = ""
       /\ p.pos = 0
  /\ (\/ FirstFetch("ReadFetchAttributes") /\ input.form \in {"top", "list"}
      \/ FirstFetch("ReadFetchAttribute") /\ input.form = "top") =>
       /\ Valid(p)
       /\ p.listDepth = 0
       /\ ~p.inSection
       /\ p.pos = (IF input.form = "list" THEN Len(input.text)
                   ELSE Len(BodyToken(input.peek, input.sec, input.partial)))
       /\ BodyAttr.kind = "body"
       /\ BodyAttr.peek = input.peek
       /\ BodyAttr.hasPartial = input.partial
       /\ (input.partial => BodyAttr.partial = <<0, 5>>)
       /\ (input.sec = "HEADER.FIELDS (DATE FROM)" =>
             /\ BodyAttr.part = ""
             /\ BodyAttr.mode = "HEADER.FIELDS"
             /\ BodyAttr.headerList = <<"DATE", "FROM">>)

\* C13: (UID BODY.PEEK[HEADER.FIELDS (DATE FROM)]<0.5> FLAGS) has been read.
C13_Witness ==
  /\ FirstFetch("ReadFetchAttributes")
  /\ input.form = "list"
  /\ input.k = 2
  /\ input.peek
  /\ input.partial
  /\ input.sec = "HEADER.FIELDS (DATE FROM)"
  /\ Valid(p)
  /\ Len(ret) = 3
  /\ ret[2].headerList = <<"DATE", "FROM">>
  /\ ret[2].peek

\* C14: no read operation aborts the process: there is no index out of
\* range and no advance panic, whatever the stream and the operations.
C14_NoPanic == ~p.panic

\* C14: ReadInt, called at end of line, has indexed the empty tail it took
\* before the next line was loaded.
C14_Witness ==
  /\ op = "ReadInt"
  /\ arg.p.isEOL
  /\ Valid(arg.p)
  /\ p.panic
  /\ p.err = "panic: " \o ErrIndex
  /\ p.line = "12 0 x" \o crlf

\* C15: an error in the slot when an operation begins is still there when
\* it returns, for every operation except DiscardLine.
C15_ErrorKept ==
  (op \notin {"init", "DiscardLine"} /\ arg.p.err # Nil) => p.err = arg.p.err

\* C15: ReadFetchAttribute, begun with the error of an earlier ReadAtom in
\* the slot, has returned with the slot empty.
C15_Witness ==
  /\ op = "ReadFetchAttribute"
  /\ arg.p.err = InvalidTokenError("atom")
  /\ p.err = Nil
  /\ ret.kind = "body"

\* what ReadRequest is to make of each of requestLines: the request and the
\* offset after its command, or no request
requestOf ==
  <<[ok |-> TRUE, Tag |-> "a1", Command |-> "NOOP", end |-> 7],
    [ok |-> TRUE, Tag |-> "a2", Command |-> "LOGIN", end |-> 8],
    [ok |-> TRUE, Tag |-> "A3", Command |-> "FETCH", end |-> 8],
    [ok |-> FALSE], [ok |-> FALSE], [ok |-> FALSE], [ok |-> FALSE], [ok |-> FALSE]>>

\* the lines of the input the parser q has loaded so far
LinesLoaded(q) == Len(input) - Cardinality({k \in 1..Len(q.r) : SubSeq(q.r, k, k) = "\n"})

\* the parser q is about to load the n-th line of the input
AtLine(q, n) == Valid(q) /\ q.isEOL /\ n <= Len(input) /\ LinesLoaded(q) = n - 1

\* C16: ReadRequest, begun at the start of a client line, returns the tag
\* as read and the command in upper case and leaves the cursor right after
\* the command atom; where the tag, the space or the command is malformed
\* it returns no request and the parser's error, which stays in the slot
\* and fails every further ReadRequest until DiscardLine; and after
\* DiscardLine the next ReadRequest starts with the next line.
C16_ReadRequest ==
  /\ \A n \in 1..MaxLines :
       (op = "ReadRequest" /\ AtLine(arg.p, n)) =>
         /\ p.line = requestLines[input[n]] \o crlf
         /\ IF requestOf[input[n]].ok
            THEN /\ ret.err = Nil
                 /\ Valid(p)
                 /\ ret.req.kind = "request"
                 /\ ret.req.Tag = requestOf[input[n]].Tag
                 /\ ret.req.Command = requestOf[input[n]].Command
                 /\ p.pos = requestOf[input[n]].end
            ELSE /\ ret.req = [kind |-> "nil"]
                 /\ ret.err # Nil
                 /\ p.err = ret.err
  /\ (op = "ReadRequest" /\ ~Valid(arg.p)) =>
       /\ ret.req = [kind |-> "nil"]
       /\ ret.err # Nil
       /\ p.err = ret.err
       /\ p.line = arg.p.line
       /\ p.pos = arg.p.pos
       /\ p.r = arg.p.r
  /\ (op \in {"ReadSpace", "ReadAtom"} /\ ~arg.p.isEOL) => p.line = arg.p.line

\* C16: after a malformed first line and DiscardLine, ReadRequest has read
\* the request of the second line.
C16_Witness ==
  /\ op = "ReadRequest"
  /\ input = <<4, 2>>
  /\ AtLine(arg.p, 2)
  /\ arg.p.line = "a1 b)" \o crlf
  /\ ret.req = [kind |-> "request", Tag |-> "a2", Command |-> "LOGIN"]
  /\ p.pos = 8

\* the first operation on the parser reads one attribute or the attributes
FirstAttribute == FirstFetch("ReadFetchAttribute") \/ FirstFetch("ReadFetchAttributes")

\* C17: ReadBodyAttribute accepts a dotted numeric part path of any depth,
\* by itself or before a mode, and records it as the dotted string; a
\* section that starts with "." is an invalid-part-specifier error.
C17_PartPath ==
  /\ (FirstAttribute /\ input.form = "path") =>
       /\ Valid(p)
       /\ BodyAttr.kind = "body"
       /\ BodyAttr.part = input.sec
       /\ BodyAttr.mode = input.mode
  /\ (FirstAttribute /\ input.form = "dot") => p.err = InvalidPartSpecifier

\* C17: BODY[1.2.3] has been refused: the part is 1 and 2.3 is taken for
\* the mode.
C17_Witness ==
  /\ FirstFetch("ReadFetchAttribute")
  /\ input.text = "BODY[1.2.3]"
  /\ p.err = InvalidPartSpecifier
  /\ p.pos = 10
  /\ ret = [kind |-> "nil"]

\* C18: HEADER.FIELDS and HEADER.FIELDS.NOT take the same payload, one space
\* and a parenthesized list of header names: BODY[HEADER.FIELDS.NOT (a b)]
\* parses without error to mode HEADER.FIELDS.NOT and the headers a and b,
\* as BODY[HEADER.FIELDS (a b)] does to mode HEADER.FIELDS.
C18_HeaderFields ==
  (FirstAttribute /\ input.form = "fields") =>
    /\ Valid(p)
    /\ BodyAttr.kind = "body"
    /\ BodyAttr.mode = input.mode
    /\ BodyAttr.headerList = <<"a", "b">>
    /\ BodyAttr.peek = input.peek

\* C18: BODY[HEADER.FIELDS.NOT (a b)] has been refused at the space after
\* the mode.
C18_Witness ==
  /\ FirstFetch("ReadFetchAttribute")
  /\ input.text = "BODY[HEADER.FIELDS.NOT (a b)]"
  /\ p.err = ExpectedError("(")
  /\ p.pos = 22
  /\ ret = [kind |-> "nil"]

\* C19: ReadAtom returns an atom that does not begin with a backslash in
\* upper case, whatever the case of the input bytes.
C19_AtomUpper == AtomRead(FALSE) => ret = ToUpper(Consumed)

\* C19: the atom fast has been returned as it was written.
C19_Witness ==
  /\ AtomRead(FALSE)
  /\ Consumed = "fast"
  /\ ret = "fast"
  /\ p.pos = 4

Feb1994 == [y |-> 1994, m |-> 2, d |-> 1]

DateLeaf(o, field) == [k |-> "Date", Op |-> o, Field |-> field, Date |-> Feb1994]

StringLeaf(field, s) == [k |-> "String", Op |-> "OpContains", Field |-> field, String |-> s]

FlagLeaf(flag, present) == [k |-> "Flag", Flag |-> flag, Present |-> present]

\* the leaf each of leafKeys stands for; no term for the last three
leafTerms ==
  <<DateLeaf("OpLT", "InternalDate"), DateLeaf("OpEquals", "InternalDate"),
    DateLeaf("OpGTE", "InternalDate"), DateLeaf("OpLT", "Date"), DateLeaf("OpEquals", "Date"),
    DateLeaf("OpGTE", "Date"),
    [k |-> "Int", Op |-> "OpGTE", Field |-> "Size", Int |-> 5],
    [k |-> "Int", Op |-> "OpLT", Field |-> "Size", Int |-> 5],
    StringLeaf("From", "Smith"), StringLeaf("To", "Smith"), StringLeaf("Cc", "Smith"),
    StringLeaf("Bcc", "Smith"), StringLeaf("Subject", "Smith"), StringLeaf("Body", "Smith"),
    StringLeaf("Text", "Smith"), StringLeaf("header.X-Id", "v"),
    [k |-> "Set", Op |-> "OpIn", Field |-> "UID", Set |-> << <<2, 4>> >>],
    FlagLeaf(FlagAnswered, TRUE), FlagLeaf(FlagAnswered, FALSE),
    FlagLeaf(FlagDeleted, TRUE), FlagLeaf(FlagDeleted, FALSE),
    FlagLeaf(FlagFlagged, TRUE), FlagLeaf(FlagFlagged, FALSE),
    FlagLeaf(FlagSeen, TRUE), FlagLeaf(FlagSeen, FALSE),
    FlagLeaf(FlagDraft, TRUE), FlagLeaf(FlagDraft, FALSE),
    FlagLeaf("work", TRUE), FlagLeaf("work", FALSE),
    [k |-> "Set", Op |-> "OpIn", Field |-> "MSN", Set |-> << <<2, 4>> >>],
    [k |-> "Set", Op |-> "OpIn", Field |-> "MSN", Set |-> << <<Star, Star>>, <<3, 3>> >>],
    [k |-> "nil"], [k |-> "nil"], [k |-> "nil"]>>

\* C20: each search keyword, in whatever case it is written, gives the leaf
\* of its field and operator: the date keywords Date(LT/EQUALS/GTE) on
\* InternalDate, and on Date for the SENT forms; LARGER and SMALLER
\* Int(GTE/LT, Size); the string keywords String(CONTAINS, field); HEADER n v
\* String(CONTAINS, "header." n, v); UID Set(IN, UID); a flag keyword and
\* its UN- form the same flag, present and not present; a key that is no
\* keyword Set(IN, MSN) of the sequence set it is, or an error and no term.
C20_KeywordLeaves ==
  (FirstSearchKey /\ input.form = "key") =>
    /\ ret = leafTerms[input.keys[1]]
    /\ Valid(p) = (leafTerms[input.keys[1]] # [k |-> "nil"])
    /\ (Valid(p) => p.pos = Len(SearchText(input)))

\* C20: sentbefore, in lower case, has been read as Date(LT, Date).
C20_Witness ==
  /\ FirstSearchKey
  /\ input.form = "key"
  /\ input.keys = <<4>>
  /\ input.spell = "lower"
  /\ Valid(p)
  /\ ret = [k |-> "Date", Op |-> "OpLT", Field |-> "Date", Date |-> [y |-> 1994, m |-> 2, d |-> 1]]

\* the count of bytes from offset n on that an atom is made of
RECURSIVE PlainLen(_, _)
PlainLen(s, n) ==
  IF n < Len(s) /\ Byte(s, n) \in PrintableSet /\ Byte(s, n) \notin atomSpecialList
  THEN PlainLen(s, n + 1) ELSE n

\* ReadAtom is the first read of a line loaded after DiscardLine, and the
\* line begins with an atom followed by the byte d
FreshAtomBefore(d) ==
  /\ op = "ReadAtom"
  /\ Valid(arg.p)
  /\ arg.p.isEOL
  /\ arg.p.line # ""
  /\ p.line = FirstLine(arg.p.r)
  /\ PlainLen(p.line, 0) >= 1
  /\ Byte(p.line, PlainLen(p.line, 0)) = d

\* C21: the list depth and the in-section flag do not outlive their line:
\* on a line loaded after DiscardLine the depth is 0 and the flag is off,
\* so ReadAtom rejects an atom followed by `)` or `]` as malformed and
\* leaves the cursor at the start of the line.
C21_ContextPerLine ==
  (FreshAtomBefore(")") \/ FreshAtomBefore("]")) =>
    /\ p.listDepth = 0
    /\ ~p.inSection
    /\ p.err = InvalidTokenError("atom")
    /\ ret = ""
    /\ p.pos = 0

\* C21: a list was left open on the discarded line, and on the next line
\* ReadAtom has taken the atom before a `)`.
C21_Witness ==
  /\ FreshAtomBefore(")")
  /\ arg.p.listDepth > 0
  /\ Valid(p)
  /\ ret = "x"
  /\ p.pos = 1

\* a body attribute of a FIELDS mode names at least one header
FieldsListed(a) ==
  (a.kind = "body" /\ a.mode \in {FetchHeaderFields, FetchHeaderFieldsNot}) =>
    Len(a.headerList) > 0

\* C22: every body attribute returned without error whose mode is
\* HEADER.FIELDS or HEADER.FIELDS.NOT carries a non-empty header list; a
\* section with the empty list `()` ends with the error slot set.
C22_HeaderListNonEmpty ==
  /\ (op = "ReadFetchAttribute" /\ Valid(p)) => FieldsListed(ret)
  /\ (op = "ReadFetchAttributes" /\ Valid(p)) => \A i \in 1..Len(ret) : FieldsListed(ret[i])

\* C22: BODY[HEADER.FIELDS ()] was returned as an attribute with no header
\* name and no error.
C22_Witness ==
  /\ FirstFetch("ReadFetchAttribute")
  /\ input.text = "BODY[HEADER.FIELDS ()]"
  /\ Valid(p)
  /\ ret = BodyFetchAttribute(FALSE, "", FetchHeaderFields, <<>>, FALSE, <<0, 0>>)
  /\ p.pos = Len(input.text)

\* the byte d after a token is a legal delimiter for the parser q
LegalAfter(q, d) ==
  \/ d \in {" ", "\r"}
  \/ d = "]" /\ q.inSection
  \/ d = ")" /\ q.listDepth > 0

\* the offset of the first `"` of s at or after offset n, Len(s) if none
RECURSIVE QuoteAt(_, _)
QuoteAt(s, n) == IF n < Len(s) /\ Byte(s, n) # "\"" THEN QuoteAt(s, n + 1) ELSE n

\* the length of the token at the head of the text an operation finds: an
\* atom of plain bytes for ReadAtom, a quoted string without escapes, up to
\* and with its closing quote, for ReadQuotedString; 0 where there is none
TokenLen(o, s) ==
  IF o = "ReadAtom" THEN PlainLen(s, 0)
  ELSE IF Len(s) >= 2 /\ Byte(s, 0) = "\"" /\ QuoteAt(s, 1) < Len(s)
            /\ "\\" \notin Chars(Slice(s, 0, QuoteAt(s, 1)))
       THEN QuoteAt(s, 1) + 1
       ELSE 0

\* the value of that token
TokenValue(o, s) ==
  IF o = "ReadAtom" THEN Slice(s, 0, TokenLen(o, s)) ELSE Slice(s, 1, TokenLen(o, s) - 1)

\* ReadAtom or ReadQuotedString was called, without an error pending, on a
\* complete line that has a token at the cursor
TokenRead ==
  /\ op \in {"ReadAtom", "ReadQuotedString"}
  /\ Valid(arg.p)
  /\ IndexLF(Pending(arg.p), 1) > 0
  /\ TokenLen(op, Pending(arg.p)) >= 1

\* C23: an atom, and a quoted string at its closing quote, is accepted only
\* before a space or CR, before `]` while the in-section flag is set, or
\* before `)` while the list depth is above 0: it is then returned and the
\* cursor stands on that byte. Before any other byte, and before `]` or `)`
\* outside those contexts, the read records a malformed-token error,
\* returns the empty string and leaves the cursor where it was.
C23_Delimiter ==
  TokenRead =>
    IF LegalAfter(arg.p, Byte(Pending(arg.p), TokenLen(op, Pending(arg.p))))
    THEN /\ Valid(p)
         /\ ret = TokenValue(op, Pending(arg.p))
         /\ p.pos = PendingPos(arg.p) + TokenLen(op, Pending(arg.p))
    ELSE /\ p.err \in {InvalidTokenError("atom"), InvalidTokenError("quoted string")}
         /\ ret = ""
         /\ p.pos = PendingPos(arg.p)

\* C23: inside a list a quoted string before `)` was accepted
C23_Witness ==
  /\ TokenRead
  /\ op = "ReadQuotedString"
  /\ Pending(arg.p) = "\"q\") y" \o crlf
  /\ arg.p.listDepth = 1
  /\ Valid(p)
  /\ ret = "q"
  /\ p.pos = PendingPos(arg.p) + 3

\* s without its double quotes
RECURSIVE StripQuotes(_)
StripQuotes(s) ==
  IF s = "" THEN ""
  ELSE (IF Head(s) = "\"" THEN "" ELSE SubSeq(s, 1, 1)) \o StripQuotes(Tail(s))

\* the tokens, one space between each two
RECURSIVE JoinSp(_)
JoinSp(ts) ==
  IF Len(ts) = 0 THEN ""
  ELSE IF Len(ts) = 1 THEN ts[1]
  ELSE ts[1] \o " " \o JoinSp(Tail(ts))

\* ReadList was called with a token reader and no error pending
ListRead == op \in {"ReadAtomList", "ReadStringList"} /\ Valid(arg.p)

\* C24: when ReadList succeeds, what it has consumed is `(`, the returned
\* tokens in order with one space between them, and the closing `)` (which
\* a space may precede), every atom is non-empty, and the list depth is what
\* it was before the call; so wherever the token reader stops on another
\* byte than `)`, a violation inside the list, the call ends with the error
\* slot set; a call that fails on a line that opens a list returns nil with
\* the cursor on such a byte.
C24_ReadList ==
  /\ (ListRead /\ Valid(p)) =>
       /\ StripQuotes(Consumed) \in
            {"(" \o JoinSp(ret) \o ")"} \cup
            (IF Len(ret) > 0 THEN {"(" \o JoinSp(ret) \o " )"} ELSE {})
       /\ p.listDepth = arg.p.listDepth
       /\ op = "ReadAtomList" =>
            \A i \in 1..Len(ret) : Len(ret[i]) >= 1 /\ PlainLen(ret[i], 0) = Len(ret[i])
  /\ (ListRead /\ ~Valid(p) /\ ~arg.p.isEOL /\ Byte(PTail(arg.p), 0) = "(") =>
       /\ Byte(p.line, p.pos) # ")"
       /\ ret = <<>>

\* C24: a list of an atom and a quoted string was read
C24_Witness ==
  /\ ListRead
  /\ op = "ReadStringList"
  /\ Consumed = "(a \"q\")"
  /\ ret = <<"a", "q">>
  /\ Valid(p)
  /\ p.listDepth = arg.p.listDepth

\* ReadLiteral was called on a literal prefix declaring n bytes, and the
\* stream holds fewer than n bytes after the prefix
ShortLiteral(n) ==
  /\ op = "ReadLiteral"
  /\ Valid(arg.p)
  /\ \E sync \in BOOLEAN : IsLiteralPrefix(Pending(arg.p), n, sync)
  /\ Len(AfterPending(arg.p)) < n

\* C25: when the stream fails or ends before the n declared bytes of a
\* literal have come, ReadLiteral ends with an I/O error in the error slot;
\* it never returns a string shorter than n as a success.
C25_ShortLiteral ==
  \A n \in 0..MaxLiteral :
    ShortLiteral(n) => p.err \in {ErrEOF, ErrIO}

\* C25: a literal of 3 declared bytes on a stream that ends after 2 was
\* returned as "ab" with the error slot empty.
C25_Witness ==
  /\ ShortLiteral(3)
  /\ arg.p.rEnd = ErrEOF
  /\ Valid(p)
  /\ ret = "ab"
  /\ p.r = ""

\* the pieces of s between the separators sep, in order
RECURSIVE Split(_, _, _)
Split(s, sep, piece) ==
  IF s = "" THEN <<piece>>
  ELSE IF Head(s) = sep THEN <<piece>> \o Split(Tail(s), sep, "")
  ELSE Split(Tail(s), sep, piece \o SubSeq(s, 1, 1))

\* an endpoint as written: `*` or a decimal integer up to MaxSeq
IsEndpoint(s) == s = "*" \/ \E n \in 0..MaxSeq : Itoa(n) = s

EndpointOf(s) == IF s = "*" THEN Star ELSE CHOOSE n \in 0..MaxSeq : Itoa(n) = s

\* a range as written: e or e:e
IsRange(s) ==
  /\ Len(Split(s, ":", "")) \in {1, 2}
  /\ \A i \in 1..Len(Split(s, ":", "")) : IsEndpoint(Split(s, ":", "")[i])

\* the pair a range as written stands for: its endpoints in the order written
RangeOf(s) ==
  <<EndpointOf(Split(s, ":", "")[1]), EndpointOf(Split(s, ":", "")[Len(Split(s, ":", ""))])>>

InBounds(r) == \A i \in 1..2 : r[i] = Star \/ r[i] >= 1

\* the count of ranges as written, from the first on, that are in bounds
RECURSIVE GoodPrefix(_)
GoodPrefix(rs) ==
  IF Len(rs) = 0 \/ ~InBounds(RangeOf(rs[1])) THEN 0 ELSE 1 + GoodPrefix(Tail(rs))

\* ReadSequenceSet is the first operation on a line that is a
\* comma-separated list of ranges
FirstSequenceSet ==
  /\ op = "ReadSequenceSet"
  /\ arg.p = NewParser(NewBuffer(input.text), ErrEOF)
  /\ \A i \in 1..Len(Split(input.text, ",", "")) : IsRange(Split(input.text, ",", "")[i])

\* C26: ReadSequenceSet stores the ranges in the order written, each with its
\* endpoints in the order written (e as [e, e], 5:2 as [5, 2]); when every
\* endpoint is `*` or at least 1 it consumes the whole set without error, and
\* at the first range with an endpoint below 1 it stops with the error
\* "sequence number out of bounds", that range and the ranges after it not
\* being part of the set.
C26_SequenceSet ==
  FirstSequenceSet =>
    /\ Len(ret) = GoodPrefix(Split(input.text, ",", ""))
    /\ \A i \in 1..Len(ret) : ret[i] = RangeOf(Split(input.text, ",", "")[i])
    /\ IF Len(ret) = Len(Split(input.text, ",", ""))
       THEN Valid(p) /\ p.pos = Len(input.text)
       ELSE p.err = ErrSeqNoOutOfBounds

\* C26: 4:2,1:* was stored as [4, 2], [1, *]
C26_Witness ==
  /\ FirstSequenceSet
  /\ input.text = "4:2,1:*"
  /\ ret = <<(<<4, 2>>), (<<1, Star>>)>>
  /\ Valid(p)

\* a term is well formed: it is not nil, an AND or OR node has at least two
\* children, a NOT node has its one child, the children are well formed, no
\* other node has children, and no OR node has an ALL node for a child
RECURSIVE WellFormed(_)
WellFormed(t) ==
  CASE t.k = "nil" -> FALSE
    [] t.k = "Boolean" ->
         /\ t.Op \in {"OpAnd", "OpOr"}
         /\ Len(t.Terms) >= 2
         /\ \A i \in 1..Len(t.Terms) : WellFormed(t.Terms[i])
         /\ t.Op = "OpOr" => \A i \in 1..Len(t.Terms) : t.Terms[i].k # "All"
    [] t.k = "Unary" ->
         /\ t.Op = "OpNot"
         /\ "Terms" \notin DOMAIN t
         /\ WellFormed(t.Term)
    [] OTHER ->
         /\ t.k \in {"All", "Flag", "String", "Date", "Int", "Set"}
         /\ DOMAIN t \cap {"Term", "Terms"} = {}

\* the depth of a term: 1 for a leaf
RECURSIVE DepthOf(_)
DepthOf(t) ==
  CASE t.k = "Boolean" ->
         1 + DepthOf(t.Terms[CHOOSE i \in 1..Len(t.Terms) :
                               \A j \in 1..Len(t.Terms) : DepthOf(t.Terms[j]) <= DepthOf(t.Terms[i])])
    [] t.k = "Unary" -> 1 + DepthOf(t.Term)
    [] OTHER -> 1

\* C27: every term that ReadSearch or ReadSearchKey returns with the error
\* slot empty is well formed.
C27_WellFormed ==
  /\ (op = "ReadSearchKey" /\ Valid(p)) => WellFormed(ret)
  /\ (op = "ReadSearch" /\ Valid(p)) => WellFormed(ret.query)

\* C27: a query three nodes deep, with an OR node in it, was returned
\* without error
C27_Witness ==
  /\ op = "ReadSearch"
  /\ Valid(p)
  /\ DepthOf(ret.query) >= 3
  /\ ret.query.k = "Unary"
  /\ ret.query.Term.k = "Boolean"
  /\ ret.query.Term.Op = "OpOr"

\* the operations with a loop or a recursive call in them
LoopOps ==
  {"ReadSearch", "ReadSearchKey", "ReadSequenceSet", "ReadAtomList", "ReadStringList",
   "ReadFetchAttribute", "ReadFetchAttributes"}

\* the bytes the parser q has still to consume: the rest of its line and
\* the bytes behind it in the reader
Left(q) == (IF q.isEOL THEN 0 ELSE available(q)) + Len(q.r)

Materialized == materialize(arg.fa, arg.msg)

\* C29: Marshal of a body attribute with a partial range never fails: its
\* output is the literal prefix {k}, CRLF and a substring of k bytes of the
\* materialized text.
C29_MarshalClamps ==
  (op = "Marshal" /\ arg.fa.hasPartial) =>
    /\ ~ret.panic
    /\ \E i \in 0..Len(Materialized), k \in 0..Len(Materialized) :
         /\ i + k <= Len(Materialized)
         /\ ret.out = "{" \o Itoa(k) \o "}" \o crlf \o SubSeq(Materialized, i + 1, i + k)

\* C29: a range that begins behind the end of the text and ends before its
\* beginning was marshalled as the empty literal
C29_Witness ==
  /\ op = "Marshal"
  /\ arg.fa.hasPartial
  /\ arg.fa.partial[1] > Len(Materialized)
  /\ arg.fa.partial[2] < arg.fa.partial[1]
  /\ Len(Materialized) = 2
  /\ ~ret.panic
  /\ ret.out = "{0}" \o crlf

\* C30: the line buffer never holds more than maxTokenSize bytes, and the
\* read that meets a longer line ends with the error slot set.
C30_LineBounded ==
  /\ Len(p.line) <= maxTokenSize
  /\ (op \in {"ReadAtom", "ReadSpace"} /\ arg.p.isEOL /\ input.size > maxTokenSize
       /\ arg.p.r = LongLine(input) \o input.next) => ~Valid(p)

\* C30: a line of exactly maxTokenSize bytes was loaded and its first atom
\* read without error
C30_Witness ==
  /\ op = "ReadAtom"
  /\ input.size = maxTokenSize
  /\ Len(p.line) = maxTokenSize
  /\ Valid(p)
  /\ ret = "a"
====
